---- MODULE Spec2Model ----
(***************************************************************************)
(* ltai-news: the channel synchronisation of app/services/channel_tracker  *)
(* (ChannelTracker) over app/client/google_oauth (GoogleOAuthClient).      *)
(*                                                                         *)
(* The environment is the video platform: every request.execute() of the   *)
(* client either raises or returns a response, chosen nondeterministically *)
(* from small sets.  The client's methods are operators over that          *)
(* response; the tracker's methods are the actions below, one per external *)
(* round trip, in the order the code makes them.                           *)
(***************************************************************************)
EXTENDS Integers, Sequences, FiniteSets, TLC

(***************************************************************************)
(* Bounds of the model.                                                    *)
(***************************************************************************)
\* most uploads the platform lists for one channel
MaxUploads == 2
\* the longest raw TRACKED_CHANNELS text explored
MaxRaw == 5
\* the latest instant the clock is followed to
MaxClock == 2

(***************************************************************************)
(* Values.                                                                 *)
(***************************************************************************)
\* Python's None where a str is expected, and where an int is expected
None == "<None>"
NoneInt == 0 - 1
\* Python's None where a mapping or an object is expected
NoneObj == [kind |-> "None"]

\* settings.tracked_channels: the channel lists a configuration may hold
\* (none, one name, a name listed twice, two names, three with a repeat)
ChannelLists ==
    {<<>>, <<"Alpha">>, <<"Alpha", "Alpha">>, <<"Alpha", "Beta">>,
     <<"Alpha", "Beta", "Alpha">>}
\* channel ids the platform may answer with for a searched name; "" is the
\* sentinel id
ChannelIds(name) == {"", "UC_" \o name}
\* str(e) of the exceptions a platform request may raise
ExcMsgs == {"", "API Error"}
\* settings.content_lookback_hours, already validated (ge=1, le=168)
LookbackChoices == {1, 24}
\* seconds per hour, timedelta(hours=...)
SecondsPerHour == 3600
\* datetime.utcnow() read by get_recent_videos, in seconds
UtcNow == 1000000

\* what a client or tracker method does: raise, or return a value
Raise(msg) == [kind |-> "raise", msg |-> msg]
Return(value) == [kind |-> "return", value |-> value]

\* a timestamp string of the platform: ISO text for instant t, or unparseable
Iso(t) == [fmt |-> "iso", t |-> t]
Junk == [fmt |-> "junk"]
\* datetime.fromisoformat: the instant of ISO text, ValueError otherwise
fromisoformat(s) ==
    IF s.fmt = "iso" THEN Return(s.t)
    ELSE Raise("Invalid isoformat string")

(***************************************************************************)
(* The platform's answers to the client's requests (request.execute()).    *)
(* Responses have the API's shape; what varies is whether the request      *)
(* raises, whether "items" is empty, and the values of an item's fields,   *)
(* which the client copies unchecked (an id may be the empty string).      *)
(***************************************************************************)
RaiseResponses == {[kind |-> "raise", msg |-> m] : m \in ExcMsgs}
EmptyResponse == [kind |-> "items", items |-> <<>>]

\* search().list(part="snippet", q=name, type="channel", maxResults=1)
SearchResponses(name) ==
    RaiseResponses \cup {EmptyResponse}
    \cup {[kind |-> "items", items |-> <<[channelId |-> c, title |-> name]>>] :
            c \in ChannelIds(name)}

\* statistics.subscriberCount of a channel item: None when the statistics
\* carry none (a hidden count), decimal text otherwise
SubscriberCounts == {None}

\* channels().list(part="snippet,statistics,contentDetails", id=channel_id)
\* for the channel found for `name`: title is None when the snippet carries
\* none, and the channel's title (the name) otherwise
ChannelsListResponses(name) ==
    RaiseResponses \cup {EmptyResponse}
    \cup {[kind |-> "items",
           items |-> <<[id |-> c, title |-> t, subscriberCount |-> s]>>] :
            c \in ChannelIds(name), t \in {None, name}, s \in SubscriberCounts}

\* channels().list(part="contentDetails", id=channel_id) of get_recent_videos
ContentDetailsResponses ==
    RaiseResponses \cup {EmptyResponse}
    \cup {[kind |-> "items", items |-> <<[uploads |-> "UU1"]>>]}

\* a request the client issued to the platform
Request(op, arg) == [op |-> op, arg |-> arg]
\* the log's entry while no operation was called on the client
NoCall == [op |-> "none"]

\* the instants an upload may carry, around the cutoff of a lookback of h hours
PublishedChoices(h) ==
    {Iso((UtcNow - h * SecondsPerHour) + d) : d \in {0 - 1, 0, 1}} \cup {Junk}

\* an upload list of n items; the k-th upload has video id k.  A malformed
\* timestamp stops the filter loop where it stands, so it is explored at the
\* end of the page, after every upload before it went through the filter.
UploadLists(n, h) ==
    {u \in [1..n -> [videoId : 1..MaxUploads, publishedAt : PublishedChoices(h)]] :
        \A k \in 1..n : /\ u[k].videoId = k
                        /\ k < n => u[k].publishedAt # Junk}

\* maxResults=50 of the uploads listing, scaled to the bound: the platform
\* puts at most that many items on a page
maxResults == MaxUploads
\* the token of the page after a full page, None when there is none
NextPageTokens(u) == IF Len(u) = maxResults THEN {None, "CAUQAA"} ELSE {None}

\* playlistItems().list(part="snippet", playlistId=..., maxResults=50)
PlaylistItemsResponses(h) ==
    RaiseResponses
    \cup UNION {{[kind |-> "items", items |-> u, nextPageToken |-> t] :
                    t \in NextPageTokens(u)} :
                 u \in UNION {UploadLists(n, h) : n \in 0..maxResults}}

\* videos().list(part="snippet,statistics,contentDetails", id=video_id);
\* the platform names channel c as the video's owner
VideosListResponses(v, c) ==
    RaiseResponses \cup {EmptyResponse}
    \cup {[kind |-> "items",
           items |-> <<[id |-> v, channelId |-> c, title |-> t,
                        publishedAt |-> Iso(UtcNow)]>>] :
            t \in {None, "Title"}}

(***************************************************************************)
(* GoogleOAuthClient: the credentials.  Credentials, the token file and    *)
(* the OAuth round trips are the Google libraries'; what the client's code *)
(* reads of them is modelled: token, refresh_token, and where the expiry   *)
(* stands ("none" when the credentials carry no expiry).                   *)
(***************************************************************************)
Credentials(token, refresh_token, expiry) ==
    [kind |-> "Credentials", token |-> token, refresh_token |-> refresh_token,
     expiry |-> expiry]

\* creds.expired and creds.valid, lines 66-67
expired(creds) == creds.expiry = "past"
valid(creds) == creds.token # None /\ ~expired(creds)

\* the token file: absent, not a token (ValueError on loading), or the JSON
\* text creds.to_json() writes, line 85
Absent == [fmt |-> "absent"]
Malformed == [fmt |-> "malformed"]
to_json(creds) ==
    [fmt |-> "json", token |-> creds.token,
     refresh_token |-> creds.refresh_token, expiry |-> creds.expiry]

\* Credentials.from_authorized_user_file, line 58
from_authorized_user_file(text) ==
    IF text.fmt = "json"
    THEN Return(Credentials(text.token, text.refresh_token, text.expiry))
    ELSE Raise("Authorized user info was not in the expected format")

\* the token files a client may find
TokenFiles ==
    {Absent, Malformed}
    \cup {to_json(Credentials(t, r, e)) :
            t \in {None, "ya29.old"}, r \in {None, "1//refresh"},
            e \in {"none", "past", "future"}}

\* the credentials of a tracker that authenticated from a stored token
StoredCredentials == Credentials("ya29.old", "1//refresh", "future")

\* what the token endpoint answers to creds.refresh(Request()), line 69
RefreshAnswers == {Raise("invalid_grant"), Return("ya29.new")}
\* what the interactive flow ends in, lines 77-80
FlowAnswers ==
    {Raise("access_denied")}
    \cup {Return(Credentials("ya29.new", r, "future")) : r \in {None, "1//refresh"}}
\* what build("youtube", "v3", credentials=creds) ends in, line 48
BuildAnswers == {Raise("unknown api name or version"), Return(TRUE)}

\* creds.refresh(Request()): a new access token in the same credentials
refresh(creds, answer) ==
    IF answer.kind = "raise" THEN answer
    ELSE Return(Credentials(answer.value, creds.refresh_token, "future"))

\* lines 56-63: the stored token is loaded; a file that does not load is
\* deleted
load_token(file) ==
    LET read == IF file = Absent THEN Return(NoneObj)
                ELSE from_authorized_user_file(file)
    IN  IF read.kind = "raise"
        THEN [creds |-> NoneObj, token_file |-> Absent]
        ELSE [creds |-> read.value, token_file |-> file]

\* a faulty variant: refreshed credentials are returned without being saved
get_credentials_refresh_unsaved(file, secrets, refresh_answer, flow_answer) ==
    LET loaded == load_token(file)
        creds == loaded.creds
    IN  IF creds # NoneObj /\ valid(creds)
        THEN [out |-> Return(creds), token_file |-> loaded.token_file,
              path |-> "stored"]
        ELSE IF creds # NoneObj /\ expired(creds) /\ creds.refresh_token # None
        THEN [out |-> refresh(creds, refresh_answer),
              token_file |-> loaded.token_file, path |-> "refresh"]
        ELSE IF ~secrets
        THEN [out |-> Raise("Credentials file not found"),
              token_file |-> loaded.token_file, path |-> "flow"]
        ELSE [out |-> flow_answer,
              token_file |-> IF flow_answer.kind = "raise" THEN loaded.token_file
                             ELSE to_json(flow_answer.value),
              path |-> "flow"]

\* a faulty variant: a token file that does not load is left where it is
get_credentials_keeps_malformed(file, secrets, refresh_answer, flow_answer) ==
    LET loaded == load_token(file)
        creds == loaded.creds
        saved(fresh) == IF fresh.kind = "raise" THEN file
                        ELSE to_json(fresh.value)
    IN  IF creds # NoneObj /\ valid(creds)
        THEN [out |-> Return(creds), token_file |-> file, path |-> "stored"]
        ELSE IF creds # NoneObj /\ expired(creds) /\ creds.refresh_token # None
        THEN LET fresh == refresh(creds, refresh_answer)
             IN  [out |-> fresh, token_file |-> saved(fresh), path |-> "refresh"]
        ELSE IF ~secrets
        THEN [out |-> Raise("Credentials file not found"),
              token_file |-> file, path |-> "flow"]
        ELSE [out |-> flow_answer, token_file |-> saved(flow_answer),
              path |-> "flow"]

\* GoogleOAuthClient._get_credentials, lines 51-88: what it returns or
\* raises, the token file it leaves, and the path it took (the stored
\* token, a refresh, or the interactive flow)
get_credentials(file, secrets, refresh_answer, flow_answer) ==
    LET loaded == load_token(file)
        creds == loaded.creds
        saved(fresh) == IF fresh.kind = "raise" THEN loaded.token_file
                        ELSE to_json(fresh.value)
    IN  IF creds # NoneObj /\ valid(creds)
        THEN [out |-> Return(creds), token_file |-> loaded.token_file,
              path |-> "stored"]
        ELSE IF creds # NoneObj /\ expired(creds) /\ creds.refresh_token # None
        THEN LET fresh == refresh(creds, refresh_answer)
             IN  [out |-> fresh, token_file |-> saved(fresh), path |-> "refresh"]
        ELSE IF ~secrets
        THEN [out |-> Raise("Credentials file not found"),
              token_file |-> loaded.token_file, path |-> "flow"]
        ELSE [out |-> flow_answer, token_file |-> saved(flow_answer),
              path |-> "flow"]

\* GoogleOAuthClient.authenticate, lines 44-49: the credentials are kept,
\* then the service is built; an exception leaves what was not yet assigned
authenticate(got, creds, service, build_answer) ==
    IF got.out.kind = "raise"
    THEN [out |-> got.out, credentials |-> creds, youtube_service |-> service]
    ELSE IF build_answer.kind = "raise"
    THEN [out |-> build_answer, credentials |-> got.out.value,
          youtube_service |-> service]
    ELSE [out |-> Return(NoneObj), credentials |-> got.out.value,
          youtube_service |-> TRUE]

(***************************************************************************)
(* GoogleOAuthClient.  service is youtube_service (set by authenticate()). *)
(***************************************************************************)
NotAuthenticated == Raise("Not authenticated. Call authenticate() first.")

\* int(statistics.get(key, 0)): decimal text to its number
int(s) ==
    CASE s = None -> Return(0)
      [] s = "0" -> Return(0)
      [] s = "5" -> Return(5)
      [] OTHER -> Raise("invalid literal for int() with base 10")

search_channel(service, resp) ==
    IF ~service THEN NotAuthenticated
    ELSE IF resp.kind = "raise" THEN Raise(resp.msg)
    ELSE IF resp.items = <<>> THEN Return(NoneObj)
    ELSE Return([kind |-> "dict",
                 id |-> resp.items[1].channelId,
                 title |-> resp.items[1].title])

\* a faulty variant: the try/except of lines 130-164 is missing
get_channel_metadata_uncaught(service, resp) ==
    IF ~service THEN NotAuthenticated
    ELSE IF resp.kind = "raise" THEN Raise(resp.msg)
    ELSE IF resp.items = <<>> THEN Return(NoneObj)
    ELSE Return([kind |-> "dict",
                 id |-> resp.items[1].id,
                 title |-> resp.items[1].title,
                 subscriber_count |-> 0])

get_channel_metadata(service, resp) ==
    IF ~service THEN NotAuthenticated
    ELSE IF resp.kind = "raise" THEN Return(NoneObj)
    ELSE IF resp.items = <<>> THEN Return(NoneObj)
    ELSE LET channel == resp.items[1]
             subs == int(channel.subscriberCount)
         IN  IF subs.kind = "raise" THEN Return(NoneObj)
             ELSE Return([kind |-> "dict",
                          id |-> channel.id,
                          title |-> channel.title,
                          subscriber_count |-> subs.value])

\* a faulty variant: the check of line 176 stands inside the try, so that
\* the handler of line 212 turns its error into None
get_video_metadata_check_in_try(service, resp) ==
    IF ~service THEN Return(NoneObj)
    ELSE IF resp.kind = "raise" THEN Return(NoneObj)
    ELSE IF resp.items = <<>> THEN Return(NoneObj)
    ELSE LET video == resp.items[1]
         IN  Return([kind |-> "dict",
                     id |-> video.id,
                     channel_id |-> video.channelId,
                     title |-> video.title,
                     published_at |-> video.publishedAt])

\* a faulty variant: the try/except of lines 180-214 is missing
get_video_metadata_uncaught(service, resp) ==
    IF ~service THEN NotAuthenticated
    ELSE IF resp.kind = "raise" THEN Raise(resp.msg)
    ELSE IF resp.items = <<>> THEN Return(NoneObj)
    ELSE LET video == resp.items[1]
         IN  Return([kind |-> "dict",
                     id |-> video.id,
                     channel_id |-> video.channelId,
                     title |-> video.title,
                     published_at |-> video.publishedAt])

get_video_metadata(service, resp) ==
    IF ~service THEN NotAuthenticated
    ELSE IF resp.kind = "raise" THEN Return(NoneObj)
    ELSE IF resp.items = <<>> THEN Return(NoneObj)
    ELSE LET video == resp.items[1]
         IN  Return([kind |-> "dict",
                     id |-> video.id,
                     channel_id |-> video.channelId,
                     title |-> video.title,
                     published_at |-> video.publishedAt])

\* a faulty variant: the cutoff itself is excluded
recent_video_ids_strict(items, published_after) ==
    IF \E k \in 1..Len(items) : fromisoformat(items[k].publishedAt).kind = "raise"
    THEN Raise("Invalid isoformat string")
    ELSE LET kept == SelectSeq(items,
                       LAMBDA item : fromisoformat(item.publishedAt).value > published_after)
         IN  Return([k \in 1..Len(kept) |-> kept[k].videoId])

\* get_recent_videos, after the uploads listing answered with items: the
\* ids of the uploads published at or after published_after, in listed
\* order; fromisoformat raises on the first unparseable publishedAt
recent_video_ids(items, published_after) ==
    IF \E k \in 1..Len(items) : fromisoformat(items[k].publishedAt).kind = "raise"
    THEN Raise("Invalid isoformat string")
    ELSE LET kept == SelectSeq(items,
                       LAMBDA item : fromisoformat(item.publishedAt).value >= published_after)
         IN  Return([k \in 1..Len(kept) |-> kept[k].videoId])

(***************************************************************************)
(* app.models: Channel, Video, ChannelSyncResult, ChannelTrackerResult.    *)
(* The records carry the fields the tracker's control flow and results     *)
(* depend on; the timestamps (sync_started_at, ...) are not modelled.      *)
(***************************************************************************)
Channel(id, name, subscriber_count, is_active) ==
    [kind |-> "Channel", id |-> id, name |-> name,
     subscriber_count |-> subscriber_count, is_active |-> is_active]

\* the model's validation: name is a required str
ChannelValid(name) == name # None

Video(id, channel_id, title, published_at) ==
    [id |-> id, channel_id |-> channel_id, title |-> title,
     published_at |-> published_at, status |-> "collected"]

\* the model's validation: title and channel_id are required strs
VideoValid(video_data) == video_data.title # None /\ video_data.channel_id # None

ChannelSyncResult(channel, videos_collected, videos_count, error) ==
    [channel |-> channel, videos_collected |-> videos_collected,
     videos_count |-> videos_count, error |-> error]

ChannelTrackerResult(processed, found, not_found, total, lookback, results) ==
    [kind |-> "ChannelTrackerResult",
     channels_processed |-> processed, channels_found |-> found,
     channels_not_found |-> not_found, total_videos_collected |-> total,
     lookback_hours |-> lookback, sync_results |-> results]

(***************************************************************************)
(* ChannelTracker: the pure parts.                                         *)
(***************************************************************************)
\* a str that is None, for a timestamp the platform did not give
NoTimestamp == [fmt |-> "None"]
\* the empty str where a timestamp is expected
EmptyTimestamp == [fmt |-> "empty"]

\* a faulty variant: unparseable text becomes the epoch instead of None
parse_datetime_epoch_default(dt_str) ==
    IF dt_str = NoTimestamp \/ dt_str = EmptyTimestamp THEN NoneInt
    ELSE LET dt == fromisoformat(dt_str)
         IN  IF dt.kind = "raise" THEN 0 ELSE dt.value

\* ChannelTracker._parse_datetime: None for None, "" and unparseable text
parse_datetime(dt_str) ==
    IF dt_str = NoTimestamp \/ dt_str = EmptyTimestamp THEN NoneInt
    ELSE LET dt == fromisoformat(dt_str)
         IN  IF dt.kind = "raise" THEN NoneInt ELSE dt.value

\* search_and_resolve_channel from the metadata on: None without metadata,
\* else the Channel built from it and logged with its subscriber count
build_channel(metadata) ==
    IF metadata = NoneObj THEN Return(NoneObj)
    ELSE IF ~ChannelValid(metadata.title)
    THEN Raise("1 validation error for Channel")
    ELSE IF metadata.subscriber_count = NoneInt
    THEN Raise("unsupported format string passed to NoneType.__format__")
    ELSE Return(Channel(metadata.id, metadata.title,
                        metadata.subscriber_count, TRUE))

\* search_and_resolve_channel, lines 68-103, over what the client's two
\* methods give: the metadata is asked for only after a match
search_and_resolve_channel(found, metadata) ==
    IF found.kind = "raise" THEN found
    ELSE IF found.value = NoneObj THEN Return(NoneObj)
    ELSE IF metadata.kind = "raise" THEN metadata
    ELSE build_channel(metadata.value)

\* fetch_recent_videos, the conversion loop: one Video per mapping, in
\* order; the first mapping the model rejects raises
RECURSIVE build_videos(_)
build_videos(videos_data) ==
    IF videos_data = <<>> THEN Return(<<>>)
    ELSE LET video_data == Head(videos_data)
             rest == build_videos(Tail(videos_data))
         IN  IF ~VideoValid(video_data)
             THEN Raise("1 validation error for Video")
             ELSE IF rest.kind = "raise" THEN rest
             ELSE Return(<<Video(video_data.id, video_data.channel_id,
                                 video_data.title,
                                 parse_datetime(video_data.published_at))>>
                         \o rest.value)

\* sync_channel, lines 170-183: resolution returned None
NotFoundMessage(channel_name) == "Could not resolve channel: " \o channel_name

SentinelChannel(channel_name) == Channel("", channel_name, NoneInt, FALSE)

\* a faulty variant: is_active is left at the model's default
NotFoundResult_active(channel_name) ==
    ChannelSyncResult(Channel("", channel_name, NoneInt, TRUE), <<>>, 0,
                      NotFoundMessage(channel_name))

NotFoundResult(channel_name) ==
    ChannelSyncResult(SentinelChannel(channel_name), <<>>, 0,
                      NotFoundMessage(channel_name))

\* a faulty variant: the handler reports "could not resolve", not str(e)
ExceptionResult_fixed_message(channel_name, msg) ==
    ChannelSyncResult(SentinelChannel(channel_name), <<>>, 0,
                      NotFoundMessage(channel_name))

\* sync_channel, lines 203-216: except Exception as e
ExceptionResult(channel_name, msg) ==
    ChannelSyncResult(SentinelChannel(channel_name), <<>>, 0, msg)

\* a faulty variant: videos_count is left at 0
SuccessResult_count_unset(channel, videos) ==
    ChannelSyncResult(channel, videos, 0, None)

\* sync_channel, lines 189-201: resolved and collected
SuccessResult(channel, videos) ==
    ChannelSyncResult(channel, videos, Len(videos), None)

\* a faulty variant: only the error is looked at
IsNotFound_error_only(result) == result.error # None /\ result.error # ""

\* sync_all_channels, line 252: result.error or not result.channel.id
\* (a str is falsy when empty, None is falsy)
IsNotFound(result) ==
    (result.error # None /\ result.error # "") \/ result.channel.id = ""

\* a faulty variant: every result counts as found
next_channels_found_always(found, result) == found + 1

\* a faulty variant: a failing name is put in front
next_channels_not_found_prepend(not_found, channel_name, result) ==
    IF IsNotFound(result) THEN <<channel_name>> \o not_found ELSE not_found

\* sync_all_channels, lines 252-256: the three accumulators after one result
next_channels_found(found, result) ==
    IF IsNotFound(result) THEN found ELSE found + 1

next_channels_not_found(not_found, channel_name, result) ==
    IF IsNotFound(result) THEN Append(not_found, channel_name) ELSE not_found

next_total_videos(total, result) ==
    IF IsNotFound(result) THEN total ELSE total + result.videos_count

\* sync_all_channels, line 258
next_sync_results(results, result) == Append(results, result)

\* a faulty variant: the handler lets the exception through
sync_channel_except_reraises(channel_name, msg) == Raise(msg)

\* sync_channel's three ways out: each returns, none raises
sync_channel_not_found(channel_name) == Return(NotFoundResult(channel_name))
sync_channel_except(channel_name, msg) == Return(ExceptionResult(channel_name, msg))
sync_channel_success(resolved, videos) == Return(SuccessResult(resolved, videos))

(***************************************************************************)
(* app.config.settings.  Text is a sequence of characters; an environment  *)
(* variable is unset, or set to a text.                                    *)
(***************************************************************************)
Chars == {"a", "b", " ", ","}
Texts == UNION {[1..n -> Chars] : n \in 0..MaxRaw}

Unset == [set |-> FALSE]
SetTo(text) == [set |-> TRUE, text |-> text]

\* CONTENT_LOOKBACK_HOURS as set in the environment: a decimal text (kept
\* as the number it denotes), a text that is no number, the empty text
Decimal(n) == [fmt |-> "decimal", n |-> n]
NotANumber == [fmt |-> "text"]
EmptyText == [fmt |-> "empty"]

\* Field(default=24, ge=1, le=168), lines 27-33
default_content_lookback_hours == 24
ge == 1
le == 168

LookbackTexts ==
    {Decimal(n) : n \in {0 - 1, 0, ge, default_content_lookback_hours, le, le + 1}}
    \cup {NotANumber, EmptyText}

Environments ==
    {[TRACKED_CHANNELS |-> t, CONTENT_LOOKBACK_HOURS |-> h] :
        t \in {Unset} \cup {SetTo(x) : x \in Texts},
        h \in {Unset} \cup {SetTo(x) : x \in LookbackTexts}}

\* str.strip(): leading and trailing whitespace removed
RECURSIVE lstrip(_)
lstrip(text) ==
    IF text # <<>> /\ Head(text) = " " THEN lstrip(Tail(text)) ELSE text

RECURSIVE rstrip(_)
rstrip(text) ==
    IF text # <<>> /\ text[Len(text)] = " "
    THEN rstrip(SubSeq(text, 1, Len(text) - 1))
    ELSE text

strip(text) == rstrip(lstrip(text))

\* str.split(sep): the pieces between the separators, empty ones included
RECURSIVE split(_, _)
split(text, sep) ==
    IF \A k \in 1..Len(text) : text[k] # sep THEN <<text>>
    ELSE LET k == CHOOSE n \in 1..Len(text) :
                     text[n] = sep /\ \A m \in 1..(n - 1) : text[m] # sep
         IN  <<SubSeq(text, 1, k - 1)>> \o split(SubSeq(text, k + 1, Len(text)), sep)

\* [ch.strip() for ch in pieces if ch.strip()]
RECURSIVE stripped_nonempty(_)
stripped_nonempty(pieces) ==
    IF pieces = <<>> THEN <<>>
    ELSE (IF strip(Head(pieces)) # <<>> THEN <<strip(Head(pieces))>> ELSE <<>>)
         \o stripped_nonempty(Tail(pieces))

\* a faulty variant: the pieces are stripped, the empty ones are kept
tracked_channels_keeps_empty(tracked_channels_raw) ==
    IF tracked_channels_raw = NoneObj THEN <<>>
    ELSE LET pieces == split(tracked_channels_raw.text, ",")
         IN  [k \in 1..Len(pieces) |-> strip(pieces[k])]

\* Settings.tracked_channels, lines 52-62
tracked_channels(tracked_channels_raw) ==
    IF tracked_channels_raw = NoneObj \/ strip(tracked_channels_raw.text) = <<>>
    THEN <<>>
    ELSE stripped_nonempty(split(tracked_channels_raw.text, ","))

\* Settings.parse_tracked_channels, lines 64-73, for None and for a str
parse_tracked_channels(value) ==
    IF value = NoneObj \/ value.text = <<>> THEN <<>>
    ELSE stripped_nonempty(split(value.text, ","))

\* env_ignore_empty=True, line 48: a variable set to the empty text counts
\* as unset
Ignored(variable, empty) == ~variable.set \/ variable.text = empty

\* a faulty variant: the upper limit is not enforced
content_lookback_hours_valid_no_le(n) == n >= ge

\* the constraints of the field, lines 29-30
content_lookback_hours_valid(n) == n >= ge /\ n <= le

\* Settings(): the fields taken from the environment and validated
Settings(environment) ==
    LET channels == environment.TRACKED_CHANNELS
        lookback == environment.CONTENT_LOOKBACK_HOURS
        raw == IF Ignored(channels, <<>>) THEN NoneObj
               ELSE [kind |-> "str", text |-> channels.text]
    IN  IF Ignored(lookback, EmptyText)
        THEN Return([tracked_channels_raw |-> raw,
                     content_lookback_hours |-> default_content_lookback_hours])
        ELSE IF lookback.text.fmt # "decimal"
        THEN Raise("1 validation error for Settings")
        ELSE IF ~content_lookback_hours_valid(lookback.text.n)
        THEN Raise("1 validation error for Settings")
        ELSE Return([tracked_channels_raw |-> raw,
                     content_lookback_hours |-> lookback.text.n])

(***************************************************************************)
(* State.                                                                  *)
(***************************************************************************)
VARIABLES
    channel_names,          \* settings.tracked_channels
    content_lookback_hours, \* settings.content_lookback_hours
    youtube_service,        \* the client's youtube_service is set
    env,                    \* the environment Settings() reads, NoneObj once read
    pc,                     \* where sync_all_channels stands
    i,                      \* position in channel_names of the current name
    search_result,          \* search_and_resolve_channel: the search's match
    channel,                \* sync_channel: the resolved Channel
    hours,                  \* get_recent_videos_with_metadata: the hours it was given
    uploads_playlist_id,    \* get_recent_videos: the uploads playlist
    response,               \* get_recent_videos: the page of uploads listed
    video_ids,              \* get_recent_videos_with_metadata: ids still to fetch
    videos_with_metadata,   \* get_recent_videos_with_metadata: mappings so far
    result,                 \* sync_all_channels: what sync_channel returned
    sync_results,           \* sync_all_channels: accumulators
    channels_found,
    channels_not_found,
    total_videos,
    tracker_result,         \* what sync_all_channels returned, or NoneObj
    raised,                 \* str(e) of an exception that left sync_all_channels
    requests,               \* history: requests of the sync_channel under way
    fetched,                \* history: the metadata fetches of the collection under way
    outcomes,               \* history: what the platform did to each name
    token_file,             \* the client's token file: absent, malformed or a JSON text
    credentials_json,       \* credentials_json_path.exists()
    credentials,            \* the client's credentials, NoneObj while unset
    last_call,              \* history: the last operation on the client, what it returned
    http_response,          \* what the endpoint answered, NoneObj before
    now,                    \* the clock datetime.utcnow() reads
    started_at,             \* sync_all_channels: started_at
    sync_started_at,        \* sync_channel: sync_started_at
    completed_at,           \* sync_all_channels: completed_at
    timestamps              \* sync_started_at, sync_completed_at of each result

\* the client's OAuth state and the log of the operations called on it
oauth == <<token_file, credentials_json, credentials, last_call>>
\* what a sync leaves alone: the settings, the client, the request served
config == <<channel_names, content_lookback_hours, youtube_service, env,
            oauth, http_response>>
\* the clock and the readings taken from it
clock == <<now, started_at, sync_started_at, completed_at, timestamps>>
locals == <<search_result, channel, hours, uploads_playlist_id, response,
            video_ids, videos_with_metadata>>
accumulators == <<sync_results, channels_found, channels_not_found, total_videos>>
vars == <<config, pc, i, locals, result, accumulators, tracker_result, raised,
          requests, fetched, outcomes, clock>>

\* ChannelTracker() was constructed (it authenticated, line 42) and
\* sync_all_channels is about to run
Init ==
    /\ channel_names \in ChannelLists
    /\ content_lookback_hours \in LookbackChoices
    /\ youtube_service = TRUE
    /\ env = NoneObj
    /\ pc = "sync_all"
    /\ i = 0
    /\ search_result = NoneObj
    /\ channel = NoneObj
    /\ hours = NoneInt
    /\ uploads_playlist_id = None
    /\ response = NoneObj
    /\ video_ids = <<>>
    /\ videos_with_metadata = <<>>
    /\ result = NoneObj
    /\ sync_results = <<>>
    /\ channels_found = 0
    /\ channels_not_found = <<>>
    /\ total_videos = 0
    /\ tracker_result = NoneObj
    /\ raised = None
    /\ requests = <<>>
    /\ fetched = <<>>
    /\ outcomes = <<>>
    /\ credentials = StoredCredentials
    /\ token_file = to_json(StoredCredentials)
    /\ credentials_json = TRUE
    /\ last_call = NoCall
    /\ http_response = NoneObj
    /\ now = 0
    /\ started_at = NoneInt
    /\ sync_started_at = NoneInt
    /\ completed_at = NoneInt
    /\ timestamps = <<>>

channel_name == channel_names[i]

\* the history's entries: the platform made the sync fail (tag says where,
\* msg is str(e) of what it raised, built counts the Videos built before a
\* mapping was rejected), or let it resolve `resolved` and collect `videos`
Failed(tag, msg, built) == [tag |-> tag, msg |-> msg, built |-> built]
Succeeded(resolved, videos) ==
    [tag |-> "success", channel |-> resolved, videos |-> videos]

\* the client issues a request only once it is authenticated
Issued(op, arg) ==
    IF youtube_service THEN Append(requests, Request(op, arg)) ELSE requests

\* a faulty variant: the completion time is taken when the sync is entered,
\* the start time when it returns
Stamps_start_read_last(started, completed) ==
    [sync_started_at |-> completed, sync_completed_at |-> started]

\* lines 163, 181, 187 and 214: the two readings a result carries
Stamps(started, completed) ==
    [sync_started_at |-> started, sync_completed_at |-> completed]

\* sync_channel(channel_name) ends with `out` (a return or a raise); `how`
\* is the history's entry.  A return goes to line 252; a raise is not
\* handled in sync_all_channels (line 250 stands in no try) and leaves it.
SyncChannelEnds(out, how) ==
    /\ search_result' = NoneObj
    /\ channel' = NoneObj
    /\ hours' = NoneInt
    /\ uploads_playlist_id' = None
    /\ response' = NoneObj
    /\ video_ids' = <<>>
    /\ videos_with_metadata' = <<>>
    /\ requests' = <<>>
    /\ fetched' = <<>>
    /\ IF out.kind = "return"
       THEN /\ result' = out.value
            /\ outcomes' = Append(outcomes, how)
            /\ timestamps' = Append(timestamps, Stamps(sync_started_at, now))
            /\ pc' = "classify"
            /\ UNCHANGED raised
       ELSE /\ raised' = out.msg
            /\ pc' = "raised"
            /\ UNCHANGED <<result, outcomes, timestamps>>
    /\ sync_started_at' = NoneInt
    /\ UNCHANGED <<config, i, accumulators, tracker_result, now, started_at,
                   completed_at>>

(***************************************************************************)
(* sync_all_channels.                                                      *)
(***************************************************************************)
\* a faulty variant: the default lookback instead of the configured one
EmptyTrackerResult_default_lookback(lookback) ==
    ChannelTrackerResult(0, 0, <<>>, 0, 24, <<>>)

\* lines 230-241: what an empty channel list returns
EmptyTrackerResult(lookback) ==
    ChannelTrackerResult(0, 0, <<>>, 0, lookback, <<>>)

\* lines 225-247: started_at is read, then the configuration
SyncAllStart ==
    /\ pc = "sync_all"
    /\ started_at' = now
    /\ IF channel_names = <<>>
       THEN /\ pc' = "no_channels"
            /\ UNCHANGED <<i, accumulators>>
       ELSE /\ sync_results' = <<>>
            /\ channels_found' = 0
            /\ channels_not_found' = <<>>
            /\ total_videos' = 0
            /\ i' = 1
            /\ pc' = "for"
    /\ UNCHANGED <<config, locals, result, tracker_result, raised, requests,
                   fetched, outcomes, now, sync_started_at, completed_at,
                   timestamps>>

\* lines 230-241: an empty list returns at once, completed_at read on the way
NoChannels ==
    /\ pc = "no_channels"
    /\ tracker_result' = EmptyTrackerResult(content_lookback_hours)
    /\ completed_at' = now
    /\ pc' = "done"
    /\ UNCHANGED <<config, i, locals, result, accumulators, raised, requests,
                   fetched, outcomes, now, started_at, sync_started_at,
                   timestamps>>

\* line 249-250: the next name, sync_channel(channel_name) is entered
ForNext ==
    /\ pc = "for"
    /\ i <= Len(channel_names)
    /\ sync_started_at' = now
    /\ pc' = "search"
    /\ UNCHANGED <<config, i, locals, result, accumulators, tracker_result,
                   raised, requests, fetched, outcomes, now, started_at,
                   completed_at, timestamps>>

\* a faulty variant: without a match the metadata is asked for all the same
Search_fetches_metadata_anyway ==
    /\ pc = "search"
    /\ \E resp \in SearchResponses(channel_name) :
         LET found == search_channel(youtube_service, resp)
         IN  IF found.kind = "raise"
             THEN SyncChannelEnds(sync_channel_except(channel_name, found.msg),
                                  Failed("search_raised", found.msg, 0))
             ELSE /\ search_result' = found.value
                  /\ requests' = Issued("search.list", channel_name)
                  /\ pc' = "metadata"
                  /\ UNCHANGED <<config, i, channel, hours, uploads_playlist_id,
                                 response, video_ids, videos_with_metadata,
                                 result, accumulators, tracker_result, raised,
                                 fetched, outcomes,
                               clock>>

\* lines 68-74: search_channel(channel_name)
Search ==
    /\ pc = "search"
    /\ \E resp \in SearchResponses(channel_name) :
         LET found == search_channel(youtube_service, resp)
         IN  IF found.kind = "raise"
             THEN SyncChannelEnds(sync_channel_except(channel_name, found.msg),
                                  Failed("search_raised", found.msg, 0))
             ELSE IF found.value = NoneObj
             THEN SyncChannelEnds(sync_channel_not_found(channel_name),
                                  Failed("no_match", None, 0))
             ELSE /\ search_result' = found.value
                  /\ requests' = Issued("search.list", channel_name)
                  /\ pc' = "metadata"
                  /\ UNCHANGED <<config, i, channel, hours, uploads_playlist_id,
                                 response, video_ids, videos_with_metadata,
                                 result, accumulators, tracker_result, raised,
                                 fetched, outcomes,
                               clock>>

\* a faulty variant: a metadata request that raised is sent a second time
Metadata_retries ==
    /\ pc = "metadata"
    /\ \E resp \in ChannelsListResponses(channel_name) :
         IF resp.kind = "raise" /\ Len(requests) = 1
         THEN /\ requests' = Issued("channels.list", search_result.id)
              /\ UNCHANGED <<config, pc, i, locals, result, accumulators,
                             tracker_result, raised, fetched, outcomes,
                               clock>>
         ELSE IF resp.kind = "raise"
         THEN SyncChannelEnds(sync_channel_not_found(channel_name),
                              Failed("metadata_raised", resp.msg, 0))
         ELSE /\ response' = resp
              /\ requests' = Issued("channels.list", search_result.id)
              /\ pc' = "channel_metadata"
              /\ UNCHANGED <<config, i, search_result, channel, hours,
                             uploads_playlist_id, video_ids,
                             videos_with_metadata, result, accumulators,
                             tracker_result, raised, fetched, outcomes,
                               clock>>

\* line 77 and get_channel_metadata, lines 126-135: the channel's metadata
\* is requested; a request that raises is caught in the client, which
\* returns None
Metadata ==
    /\ pc = "metadata"
    /\ \E resp \in ChannelsListResponses(channel_name) :
         LET metadata == get_channel_metadata(youtube_service, resp)
         IN  IF metadata.kind = "raise"
             THEN SyncChannelEnds(sync_channel_except(channel_name, metadata.msg),
                                  Failed("metadata_raised", metadata.msg, 0))
             ELSE IF resp.kind = "raise"
             THEN SyncChannelEnds(sync_channel_not_found(channel_name),
                                  Failed("metadata_raised", resp.msg, 0))
             ELSE /\ response' = resp
                  /\ requests' = Issued("channels.list", search_result.id)
                  /\ pc' = "channel_metadata"
                  /\ UNCHANGED <<config, i, search_result, channel, hours,
                                 uploads_playlist_id, video_ids,
                                 videos_with_metadata, result, accumulators,
                                 tracker_result, raised, fetched, outcomes,
                               clock>>

\* get_channel_metadata, lines 137-164, and lines 78-103, 168-169: the
\* mapping made of the response, and the Channel made of the mapping
ChannelMetadata ==
    /\ pc = "channel_metadata"
    /\ LET metadata == get_channel_metadata(youtube_service, response)
           built == IF metadata.kind = "raise" THEN metadata
                    ELSE build_channel(metadata.value)
           how == IF response.items = <<>>
                  THEN Failed("metadata_absent", None, 0)
                  ELSE Failed("resolve_raised",
                              IF built.kind = "raise" THEN built.msg ELSE None, 0)
       IN  IF built.kind = "raise"
           THEN SyncChannelEnds(sync_channel_except(channel_name, built.msg), how)
           ELSE IF built.value = NoneObj
           THEN SyncChannelEnds(sync_channel_not_found(channel_name), how)
           ELSE /\ channel' = built.value
                /\ search_result' = NoneObj
                /\ response' = NoneObj
                /\ pc' = "uploads_playlist"
                /\ UNCHANGED <<config, i, hours, uploads_playlist_id, video_ids,
                               videos_with_metadata, result, accumulators,
                               tracker_result, raised, requests, fetched,
                               outcomes,
                               clock>>

\* a faulty variant: no hours are passed on, the client's default applies
lookback_hours_client_default(given) == 24

\* fetch_recent_videos, line 118: hours or settings.content_lookback_hours,
\* sync_channel passing no hours (0 stands for the absent argument)
lookback_hours(given) == IF given # 0 THEN given ELSE content_lookback_hours

\* get_recent_videos, line 239
published_after(h) == UtcNow - h * SecondsPerHour

\* the mappings of videos_data that precede the first one the model rejects
RECURSIVE ValidPrefixLen(_)
ValidPrefixLen(videos_data) ==
    IF videos_data = <<>> \/ ~VideoValid(Head(videos_data)) THEN 0
    ELSE 1 + ValidPrefixLen(Tail(videos_data))

\* fetch_recent_videos, lines 130-151, then sync_channel, lines 187-201:
\* the mappings become Videos and the result; a rejected mapping raises
\* into sync_channel's handler
Collected(videos_data) ==
    LET videos == build_videos(videos_data)
    IN  IF videos.kind = "raise"
        THEN SyncChannelEnds(sync_channel_except(channel_name, videos.msg),
                             Failed("build_raised", videos.msg,
                                    ValidPrefixLen(videos_data)))
        ELSE SyncChannelEnds(sync_channel_success(channel, videos.value),
                             Succeeded(channel, videos.value))

\* lines 186, 125 and get_recent_videos, lines 218-236: the uploads playlist
\* of channel.id; no such channel gives no videos
UploadsPlaylist ==
    /\ pc = "uploads_playlist"
    /\ \E resp \in ContentDetailsResponses :
         IF ~youtube_service
         THEN SyncChannelEnds(sync_channel_except(channel_name, NotAuthenticated.msg),
                              Failed("collect_raised", NotAuthenticated.msg, 0))
         ELSE IF resp.kind = "raise"
         THEN SyncChannelEnds(sync_channel_except(channel_name, resp.msg),
                              Failed("collect_raised", resp.msg, 0))
         ELSE IF resp.items = <<>>
         THEN Collected(<<>>)
         ELSE /\ hours' = lookback_hours(0)
              /\ uploads_playlist_id' = resp.items[1].uploads
              /\ requests' = Issued("channels.list.contentDetails", channel.id)
              /\ pc' = "playlist_items"
              /\ UNCHANGED <<config, i, search_result, channel, response,
                             video_ids, videos_with_metadata, result,
                             accumulators, tracker_result, raised, fetched,
                             outcomes,
                               clock>>

\* get_recent_videos, lines 239-247: the cutoff is taken and one page of
\* the uploads playlist is requested
PlaylistItems ==
    /\ pc = "playlist_items"
    /\ \E resp \in PlaylistItemsResponses(hours) :
         IF resp.kind = "raise"
         THEN SyncChannelEnds(sync_channel_except(channel_name, resp.msg),
                              Failed("collect_raised", resp.msg, 0))
         ELSE /\ response' = resp
              /\ requests' = Issued("playlistItems.list", uploads_playlist_id)
              /\ pc' = "recent_videos"
              /\ UNCHANGED <<config, i, search_result, channel, hours,
                             uploads_playlist_id, video_ids, videos_with_metadata,
                             result, accumulators, tracker_result, raised,
                             fetched, outcomes,
                               clock>>

\* a faulty variant: a page that names a next page is followed by a request
\* for it
RecentVideos_follows_next_page ==
    /\ pc = "recent_videos"
    /\ response.nextPageToken # None
    /\ pc' = "playlist_items"
    /\ UNCHANGED <<config, i, locals, result, accumulators, tracker_result,
                   raised, requests, fetched, outcomes,
                               clock>>

\* get_recent_videos, lines 249-263, and lines 279-282: the page is
\* filtered by the cutoff, no further page is asked for, and the ids of the
\* kept uploads go to the metadata loop
RecentVideos ==
    /\ pc = "recent_videos"
    /\ LET ids == recent_video_ids(response.items, published_after(hours))
       IN  IF ids.kind = "raise"
           THEN SyncChannelEnds(sync_channel_except(channel_name, ids.msg),
                                Failed("collect_raised", ids.msg, 0))
           ELSE IF ids.value = <<>>
           THEN Collected(<<>>)
           ELSE /\ video_ids' = ids.value
                /\ videos_with_metadata' = <<>>
                /\ response' = NoneObj
                /\ pc' = "video_metadata"
                /\ UNCHANGED <<config, i, search_result, channel, hours,
                               uploads_playlist_id, result, accumulators,
                               tracker_result, raised, requests, fetched, outcomes,
                               clock>>

\* get_recent_videos_with_metadata, lines 286-292: the metadata of the next
\* video id; a video without metadata is left out.  After the last id the
\* mappings are returned to fetch_recent_videos.
VideoMetadata ==
    /\ pc = "video_metadata"
    /\ \E resp \in VideosListResponses(Head(video_ids), channel.id) :
         LET metadata == get_video_metadata(youtube_service, resp)
         IN  IF metadata.kind = "raise"
             THEN SyncChannelEnds(sync_channel_except(channel_name, metadata.msg),
                                  Failed("collect_raised", metadata.msg, 0))
             ELSE /\ video_ids' = Tail(video_ids)
                  /\ videos_with_metadata' =
                         IF metadata.value = NoneObj
                         THEN videos_with_metadata
                         ELSE Append(videos_with_metadata, metadata.value)
                  /\ requests' = Issued("videos.list", Head(video_ids))
                  /\ fetched' = Append(fetched,
                                       [id |-> Head(video_ids),
                                        ok |-> metadata.value # NoneObj])
                  /\ pc' = IF Tail(video_ids) = <<>> THEN "videos_data"
                           ELSE "video_metadata"
                  /\ UNCHANGED <<config, i, search_result, channel, hours,
                                 uploads_playlist_id, response, result,
                                 accumulators, tracker_result, raised, outcomes,
                               clock>>

\* fetch_recent_videos, lines 129-151, and sync_channel, lines 187-201: the
\* mappings the client returned become the Videos of the result
FetchRecentVideos ==
    /\ pc = "videos_data"
    /\ Collected(videos_with_metadata)

\* a faulty variant: the loop is left at the first name that is not found
Classify_breaks_on_failure ==
    /\ pc = "classify"
    /\ channels_found' = next_channels_found(channels_found, result)
    /\ channels_not_found' =
           next_channels_not_found(channels_not_found, channel_name, result)
    /\ total_videos' = next_total_videos(total_videos, result)
    /\ sync_results' = next_sync_results(sync_results, result)
    /\ result' = NoneObj
    /\ i' = IF IsNotFound(result) THEN Len(channel_names) + 1 ELSE i + 1
    /\ pc' = "for"
    /\ UNCHANGED <<config, locals, tracker_result, raised, requests, fetched, outcomes,
                               clock>>

\* lines 252-258: classify the result, count it, keep it
Classify ==
    /\ pc = "classify"
    /\ channels_found' = next_channels_found(channels_found, result)
    /\ channels_not_found' =
           next_channels_not_found(channels_not_found, channel_name, result)
    /\ total_videos' = next_total_videos(total_videos, result)
    /\ sync_results' = next_sync_results(sync_results, result)
    /\ result' = NoneObj
    /\ i' = i + 1
    /\ pc' = "for"
    /\ UNCHANGED <<config, locals, tracker_result, raised, requests, fetched, outcomes,
                               clock>>

\* lines 260-278: the list is exhausted, the batch result is returned
SyncAllFinish ==
    /\ pc = "for"
    /\ i > Len(channel_names)
    /\ tracker_result' =
           ChannelTrackerResult(Len(channel_names), channels_found,
                                channels_not_found, total_videos,
                                content_lookback_hours, sync_results)
    /\ completed_at' = now
    /\ pc' = "done"
    /\ UNCHANGED <<config, i, locals, result, accumulators, raised, requests,
                   fetched, outcomes, now, started_at, sync_started_at,
                   timestamps>>

Next ==
    \/ SyncAllStart
    \/ NoChannels
    \/ ForNext
    \/ Search
    \/ Metadata
    \/ ChannelMetadata
    \/ UploadsPlaylist
    \/ PlaylistItems
    \/ RecentVideos
    \/ VideoMetadata
    \/ FetchRecentVideos
    \/ Classify
    \/ SyncAllFinish

Spec == Init /\ [][Next]_vars

(***************************************************************************)
(* Loading the settings: get_settings() as ChannelTracker.__init__ calls   *)
(* it (channel_tracker.py, line 29), from any environment.                 *)
(***************************************************************************)
SettingsInit ==
    /\ env \in Environments
    /\ channel_names = <<>>
    /\ content_lookback_hours = NoneInt
    /\ youtube_service = FALSE
    /\ pc = "get_settings"
    /\ i = 0
    /\ search_result = NoneObj
    /\ channel = NoneObj
    /\ hours = NoneInt
    /\ uploads_playlist_id = None
    /\ response = NoneObj
    /\ video_ids = <<>>
    /\ videos_with_metadata = <<>>
    /\ result = NoneObj
    /\ sync_results = <<>>
    /\ channels_found = 0
    /\ channels_not_found = <<>>
    /\ total_videos = 0
    /\ tracker_result = NoneObj
    /\ raised = None
    /\ requests = <<>>
    /\ fetched = <<>>
    /\ outcomes = <<>>
    /\ credentials = NoneObj
    /\ token_file = Absent
    /\ credentials_json = TRUE
    /\ last_call = NoCall
    /\ http_response = NoneObj
    /\ now = 0
    /\ started_at = NoneInt
    /\ sync_started_at = NoneInt
    /\ completed_at = NoneInt
    /\ timestamps = <<>>

\* settings.py, lines 76-79, and the reads of settings.tracked_channels
\* (channel_tracker.py, line 51) and settings.content_lookback_hours: a
\* rejected environment raises out of the constructor
get_settings ==
    /\ pc = "get_settings"
    /\ LET settings == Settings(env)
       IN  IF settings.kind = "raise"
           THEN /\ raised' = settings.msg
                /\ pc' = "raised"
                /\ UNCHANGED <<channel_names, content_lookback_hours>>
           ELSE /\ channel_names' = tracked_channels(settings.value.tracked_channels_raw)
                /\ content_lookback_hours' = settings.value.content_lookback_hours
                /\ pc' = "settings"
                /\ UNCHANGED raised
    /\ UNCHANGED <<youtube_service, env, oauth, http_response, i, locals,
                   result, accumulators, tracker_result, requests, fetched,
                   outcomes, clock>>

SettingsNext == get_settings

SettingsSpec == SettingsInit /\ [][SettingsNext]_vars

(***************************************************************************)
(* The client on its own: GoogleOAuthClient(...) was constructed (lines    *)
(* 21-42: no credentials, no service), and authenticate() and the five API *)
(* operations are called on it in any order.                               *)
(***************************************************************************)
\* get_recent_videos, lines 216-263, the videos as their ids: the uploads
\* playlist is looked up, then one page of it is listed and filtered
get_recent_videos(service, details, page, h) ==
    IF ~service THEN NotAuthenticated
    ELSE IF details.kind = "raise" THEN Raise(details.msg)
    ELSE IF details.items = <<>> THEN Return(<<>>)
    ELSE IF page.kind = "raise" THEN Raise(page.msg)
    ELSE recent_video_ids(page.items, published_after(h))

\* get_recent_videos_with_metadata, lines 265-292; answers[v] is what
\* videos().list answers for video id v
get_recent_videos_with_metadata(service, details, page, h, answers) ==
    LET videos == get_recent_videos(service, details, page, h)
    IN  IF videos.kind = "raise" THEN videos
        ELSE LET metadata ==
                     [k \in 1..Len(videos.value) |->
                         get_video_metadata(service, answers[videos.value[k]])]
             IN  IF \E k \in 1..Len(metadata) : metadata[k].kind = "raise"
                 THEN NotAuthenticated
                 ELSE Return(SelectSeq([k \in 1..Len(metadata) |-> metadata[k].value],
                                       LAMBDA m : m # NoneObj))

\* the requests one operation sends: none before the check of
\* youtube_service has passed (lines 92, 126, 176, 218)
search_channel_requests(service, name) ==
    IF ~service THEN <<>> ELSE <<Request("search.list", name)>>
get_channel_metadata_requests(service, channel_id) ==
    IF ~service THEN <<>> ELSE <<Request("channels.list", channel_id)>>
get_video_metadata_requests(service, video_id) ==
    IF ~service THEN <<>> ELSE <<Request("videos.list", video_id)>>
get_recent_videos_requests(service, details, channel_id) ==
    IF ~service THEN <<>>
    ELSE <<Request("channels.list.contentDetails", channel_id)>>
         \o (IF details.kind = "raise" \/ details.items = <<>> THEN <<>>
             ELSE <<Request("playlistItems.list", details.items[1].uploads)>>)
get_recent_videos_with_metadata_requests(service, details, page, h, channel_id) ==
    LET videos == get_recent_videos(service, details, page, h)
    IN  get_recent_videos_requests(service, details, channel_id)
        \o (IF videos.kind = "raise" THEN <<>>
            ELSE [k \in 1..Len(videos.value) |->
                     Request("videos.list", videos.value[k])])

\* what the operations are called with
CalledName == "Alpha"
CalledChannelId == "UC_Alpha"
CalledVideoId == 1
CalledHours == 24
\* the pages the uploads listing answers with here: at most one upload
CalledPages ==
    RaiseResponses
    \cup {[kind |-> "items", items |-> u, nextPageToken |-> None] :
            u \in UploadLists(0, CalledHours) \cup UploadLists(1, CalledHours)}

AuthInit ==
    /\ token_file \in TokenFiles
    /\ credentials_json \in BOOLEAN
    /\ credentials = NoneObj
    /\ youtube_service = FALSE
    /\ last_call = NoCall
    /\ pc = "client"
    /\ channel_names = <<>>
    /\ content_lookback_hours = NoneInt
    /\ env = NoneObj
    /\ i = 0
    /\ search_result = NoneObj
    /\ channel = NoneObj
    /\ hours = NoneInt
    /\ uploads_playlist_id = None
    /\ response = NoneObj
    /\ video_ids = <<>>
    /\ videos_with_metadata = <<>>
    /\ result = NoneObj
    /\ sync_results = <<>>
    /\ channels_found = 0
    /\ channels_not_found = <<>>
    /\ total_videos = 0
    /\ tracker_result = NoneObj
    /\ raised = None
    /\ requests = <<>>
    /\ fetched = <<>>
    /\ outcomes = <<>>
    /\ http_response = NoneObj
    /\ now = 0
    /\ started_at = NoneInt
    /\ sync_started_at = NoneInt
    /\ completed_at = NoneInt
    /\ timestamps = <<>>

\* what an operation on the client leaves alone
beside_client ==
    <<channel_names, content_lookback_hours, env, credentials_json,
      http_response, pc, i, locals, result, accumulators, tracker_result,
      raised, fetched, outcomes, clock>>

\* authenticate(), lines 44-49, with _get_credentials, lines 51-88.  The log
\* keeps what _get_credentials gave (got), the path it took and the token
\* file it found.
Authenticate ==
    /\ pc = "client"
    /\ \E refresh_answer \in RefreshAnswers, flow_answer \in FlowAnswers,
          build_answer \in BuildAnswers :
         LET got == get_credentials(token_file, credentials_json,
                                    refresh_answer, flow_answer)
             done == authenticate(got, credentials, youtube_service, build_answer)
         IN  /\ token_file' = got.token_file
             /\ credentials' = done.credentials
             /\ youtube_service' = done.youtube_service
             /\ last_call' = [op |-> "authenticate", out |-> done.out,
                              got |-> got.out, path |-> got.path,
                              found |-> token_file]
             /\ requests' = <<>>
    /\ UNCHANGED beside_client

\* an API operation was called: the log keeps what it gave, requests keeps
\* the requests it sent
Called(op, out, sent) ==
    /\ pc = "client"
    /\ last_call' = [op |-> op, out |-> out]
    /\ requests' = sent
    /\ UNCHANGED <<token_file, credentials, youtube_service, beside_client>>

SearchChannel ==
    \E resp \in SearchResponses(CalledName) :
        Called("search_channel", search_channel(youtube_service, resp),
               search_channel_requests(youtube_service, CalledName))

GetChannelMetadata ==
    \E resp \in ChannelsListResponses(CalledName) :
        Called("get_channel_metadata", get_channel_metadata(youtube_service, resp),
               get_channel_metadata_requests(youtube_service, CalledChannelId))

GetVideoMetadata ==
    \E resp \in VideosListResponses(CalledVideoId, CalledChannelId) :
        Called("get_video_metadata", get_video_metadata(youtube_service, resp),
               get_video_metadata_requests(youtube_service, CalledVideoId))

GetRecentVideos ==
    \E details \in ContentDetailsResponses, page \in CalledPages :
        Called("get_recent_videos",
               get_recent_videos(youtube_service, details, page, CalledHours),
               get_recent_videos_requests(youtube_service, details, CalledChannelId))

GetRecentVideosWithMetadata ==
    \E details \in ContentDetailsResponses, page \in CalledPages,
       answer \in VideosListResponses(CalledVideoId, CalledChannelId) :
        Called("get_recent_videos_with_metadata",
               get_recent_videos_with_metadata(
                   youtube_service, details, page, CalledHours,
                   [v \in {CalledVideoId} |-> answer]),
               get_recent_videos_with_metadata_requests(
                   youtube_service, details, page, CalledHours, CalledChannelId))

AuthNext ==
    \/ Authenticate
    \/ SearchChannel
    \/ GetChannelMetadata
    \/ GetVideoMetadata
    \/ GetRecentVideos
    \/ GetRecentVideosWithMetadata

AuthSpec == AuthInit /\ [][AuthNext]_vars

(***************************************************************************)
(* ChannelTracker over a client double: the tracker as it is with any      *)
(* client that offers search_channel, get_channel_metadata and             *)
(* get_recent_videos_with_metadata (the Mock client of tests/unit).  What  *)
(* the client returns is drawn from the sets below, and the clock moves.   *)
(***************************************************************************)
TrackerChannelLists == {<<>>, <<"Alpha">>, <<"Alpha", "Beta">>}

\* search_channel(name): raises, finds nothing, or a match
SearchReturns(name) ==
    {Raise("API Error"), Return(NoneObj),
     Return([kind |-> "dict", id |-> "UC_" \o name, title |-> name])}

\* get_channel_metadata(channel_id): nothing, or a mapping in which title,
\* subscriber_count and published_at may be None
MetadataReturns(name) ==
    {Return(NoneObj)}
    \cup {Return([kind |-> "dict", id |-> "UC_" \o name, title |-> t,
                  subscriber_count |-> n, published_at |-> d]) :
            t \in {None, name}, n \in {NoneInt, 0}, d \in {NoTimestamp, Junk}}

\* one mapping of get_recent_videos_with_metadata
VideoData(v, c, title, published_at) ==
    [kind |-> "dict", id |-> v, channel_id |-> c, title |-> title,
     published_at |-> published_at]

\* get_recent_videos_with_metadata(channel_id, hours): raises, or a list of
\* mappings whose published_at is ISO text, unparseable, empty or None
VideosDataReturns(c) ==
    {Raise("API Error"), Return(<<>>)}
    \cup {Return(<<VideoData(1, c, t, d)>>) :
            t \in {None, "Title"},
            d \in {Iso(UtcNow), Junk, EmptyTimestamp, NoTimestamp}}
    \cup {Return(<<VideoData(1, c, "Title", Iso(UtcNow)),
                   VideoData(2, c, "Title", Junk)>>)}

TrackerInit == Init /\ channel_names \in TrackerChannelLists

\* lines 68-77: the two calls of search_and_resolve_channel on the client
ClientResolves ==
    /\ pc = "search"
    /\ \E found \in SearchReturns(channel_name),
          metadata \in MetadataReturns(channel_name) :
         IF found.kind = "raise"
         THEN SyncChannelEnds(sync_channel_except(channel_name, found.msg),
                              Failed("search_raised", found.msg, 0))
         ELSE IF found.value = NoneObj
         THEN SyncChannelEnds(sync_channel_not_found(channel_name),
                              Failed("no_match", None, 0))
         ELSE /\ search_result' = found.value
              /\ response' = metadata.value
              /\ pc' = "metadata_returned"
              /\ UNCHANGED <<config, i, channel, hours, uploads_playlist_id,
                             video_ids, videos_with_metadata, result,
                             accumulators, tracker_result, raised, requests,
                             fetched, outcomes, clock>>

\* lines 78-103 and 168-169: the Channel made of the mapping the client
\* returned (held in response)
BuildChannel ==
    /\ pc = "metadata_returned"
    /\ LET built == build_channel(response)
       IN  IF built.kind = "raise"
           THEN SyncChannelEnds(sync_channel_except(channel_name, built.msg),
                                Failed("resolve_raised", built.msg, 0))
           ELSE IF built.value = NoneObj
           THEN SyncChannelEnds(sync_channel_not_found(channel_name),
                                Failed("metadata_absent", None, 0))
           ELSE /\ channel' = built.value
                /\ search_result' = NoneObj
                /\ response' = NoneObj
                /\ pc' = "uploads_playlist"
                /\ UNCHANGED <<config, i, hours, uploads_playlist_id, video_ids,
                               videos_with_metadata, result, accumulators,
                               tracker_result, raised, requests, fetched,
                               outcomes, clock>>

\* lines 186, 118-127: get_recent_videos_with_metadata(channel.id, hours)
\* on the client
ClientCollects ==
    /\ pc = "uploads_playlist"
    /\ \E out \in VideosDataReturns(channel.id) :
         IF out.kind = "raise"
         THEN SyncChannelEnds(sync_channel_except(channel_name, out.msg),
                              Failed("collect_raised", out.msg, 0))
         ELSE /\ hours' = lookback_hours(0)
              /\ videos_with_metadata' = out.value
              /\ pc' = "videos_data"
              /\ UNCHANGED <<config, i, search_result, channel,
                             uploads_playlist_id, response, video_ids, result,
                             accumulators, tracker_result, raised, requests,
                             fetched, outcomes, clock>>

\* time passes: the next datetime.utcnow() reads a later instant
Tick ==
    /\ pc \notin {"done", "raised"}
    /\ now < MaxClock
    /\ now' = now + 1
    /\ UNCHANGED <<config, pc, i, locals, result, accumulators, tracker_result,
                   raised, requests, fetched, outcomes, started_at,
                   sync_started_at, completed_at, timestamps>>

TrackerNext ==
    \/ SyncAllStart
    \/ NoChannels
    \/ ForNext
    \/ ClientResolves
    \/ BuildChannel
    \/ ClientCollects
    \/ FetchRecentVideos
    \/ Classify
    \/ SyncAllFinish
    \/ Tick

TrackerSpec == TrackerInit /\ [][TrackerNext]_vars

(***************************************************************************)
(* app/api/channels.py: POST /api/channels/sync and POST                   *)
(* /api/channels/resolve/{channel_name}.  A request arrives at a process   *)
(* that has no tracker yet; each endpoint constructs one (settings, client,*)
(* authenticate()) and answers.                                            *)
(***************************************************************************)
\* an answer of the endpoint: the returned value, or an HTTPException
Ok(body) == [status_code |-> 200, body |-> body]
HTTPException(status_code, detail) == [status_code |-> status_code, detail |-> detail]

\* a faulty variant: a batch with a name that was not found answers 500
sync_channels_response_fails_on_not_found(out) ==
    IF out.kind = "raise"
    THEN HTTPException(500, "Channel sync failed: " \o out.msg)
    ELSE IF out.value.channels_not_found # <<>>
    THEN HTTPException(500, "Channel sync failed: channels not found")
    ELSE Ok(out.value)

\* sync_channels, lines 42-48, over what the try block gave
sync_channels_response(out) ==
    IF out.kind = "raise"
    THEN HTTPException(500, "Channel sync failed: " \o out.msg)
    ELSE Ok(out.value)

\* a faulty variant: without the handler of lines 73-74 the 404 is caught
\* by the handler of line 75
resolve_channel_response_catch_all(name, out) ==
    IF out.kind = "raise"
    THEN HTTPException(500, "Channel resolution failed: " \o out.msg)
    ELSE IF out.value = NoneObj
    THEN HTTPException(500, "Channel resolution failed: 404: Channel not found: "
                            \o name)
    ELSE Ok(out.value)

\* resolve_channel, lines 65-79, over what the try block gave before its
\* own raise
resolve_channel_response(name, out) ==
    IF out.kind = "raise"
    THEN HTTPException(500, "Channel resolution failed: " \o out.msg)
    ELSE IF out.value = NoneObj
    THEN HTTPException(404, "Channel not found: " \o name)
    ELSE Ok(out.value)

\* the environments of a process whose settings are not loaded yet: no
\* channels, a lookback that is rejected or accepted
ApiEnvironments ==
    {[TRACKED_CHANNELS |-> Unset, CONTENT_LOOKBACK_HOURS |-> SetTo(Decimal(n))] :
        n \in {0, default_content_lookback_hours}}

\* the channel_name of a resolve request
ResolveNames == {"Alpha"}

\* env is NoneObj when get_settings() already holds its cached Settings
ApiInit ==
    /\ env \in {NoneObj} \cup ApiEnvironments
    /\ IF env = NoneObj
       THEN /\ channel_names \in TrackerChannelLists
            /\ content_lookback_hours \in LookbackChoices
       ELSE /\ channel_names = <<>>
            /\ content_lookback_hours = NoneInt
    /\ token_file \in {Absent, to_json(StoredCredentials)}
    /\ credentials_json \in BOOLEAN
    /\ credentials = NoneObj
    /\ youtube_service = FALSE
    /\ last_call = NoCall
    /\ http_response = NoneObj
    /\ pc = "request"
    /\ i = 0
    /\ search_result = NoneObj
    /\ channel = NoneObj
    /\ hours = NoneInt
    /\ uploads_playlist_id = None
    /\ response = NoneObj
    /\ video_ids = <<>>
    /\ videos_with_metadata = <<>>
    /\ result = NoneObj
    /\ sync_results = <<>>
    /\ channels_found = 0
    /\ channels_not_found = <<>>
    /\ total_videos = 0
    /\ tracker_result = NoneObj
    /\ raised = None
    /\ requests = <<>>
    /\ fetched = <<>>
    /\ outcomes = <<>>
    /\ now = 0
    /\ started_at = NoneInt
    /\ sync_started_at = NoneInt
    /\ completed_at = NoneInt
    /\ timestamps = <<>>

\* ChannelTracker(), channel_tracker.py lines 29-42: get_settings(), the
\* client, authenticate().  What it gives, and the settings and the client
\* state it leaves.
ChannelTracker(refresh_answer, flow_answer, build_answer) ==
    LET settings == IF env = NoneObj
                    THEN Return([tracked_channels |-> channel_names,
                                 content_lookback_hours |-> content_lookback_hours])
                    ELSE LET loaded == Settings(env)
                         IN  IF loaded.kind = "raise" THEN loaded
                             ELSE Return([tracked_channels |->
                                              tracked_channels(loaded.value.tracked_channels_raw),
                                          content_lookback_hours |->
                                              loaded.value.content_lookback_hours])
        got == get_credentials(token_file, credentials_json, refresh_answer,
                               flow_answer)
        done == authenticate(got, NoneObj, FALSE, build_answer)
    IN  IF settings.kind = "raise"
        THEN [out |-> settings, channel_names |-> channel_names,
              content_lookback_hours |-> content_lookback_hours,
              token_file |-> token_file, credentials |-> NoneObj,
              youtube_service |-> FALSE]
        ELSE [out |-> done.out,
              channel_names |-> settings.value.tracked_channels,
              content_lookback_hours |-> settings.value.content_lookback_hours,
              token_file |-> got.token_file, credentials |-> done.credentials,
              youtube_service |-> done.youtube_service]

\* what the construction of a tracker leaves behind
Constructs(tracker) ==
    /\ channel_names' = tracker.channel_names
    /\ content_lookback_hours' = tracker.content_lookback_hours
    /\ token_file' = tracker.token_file
    /\ credentials' = tracker.credentials
    /\ youtube_service' = tracker.youtube_service
    /\ env' = NoneObj
    /\ UNCHANGED credentials_json

\* sync_channels, lines 41-43 and 46-48: the tracker is constructed; an
\* exception is answered with 500, else sync_all_channels is entered
sync_channels_constructs ==
    /\ pc = "request"
    /\ \E refresh_answer \in RefreshAnswers, flow_answer \in FlowAnswers,
          build_answer \in BuildAnswers :
         LET tracker == ChannelTracker(refresh_answer, flow_answer, build_answer)
         IN  /\ Constructs(tracker)
             /\ last_call' = [op |-> "ChannelTracker", endpoint |-> "sync",
                              out |-> tracker.out]
             /\ IF tracker.out.kind = "raise"
                THEN /\ http_response' = sync_channels_response(tracker.out)
                     /\ pc' = "responded"
                ELSE /\ pc' = "sync_all"
                     /\ UNCHANGED http_response
    /\ UNCHANGED <<i, locals, result, accumulators, tracker_result, raised,
                   requests, fetched, outcomes, clock>>

\* sync_channels, lines 44-48: sync_all_channels returned or raised
sync_channels_responds ==
    /\ pc \in {"done", "raised"}
    /\ http_response' =
           sync_channels_response(IF pc = "done" THEN Return(tracker_result)
                                  ELSE Raise(raised))
    /\ pc' = "responded"
    /\ UNCHANGED <<channel_names, content_lookback_hours, youtube_service, env,
                   oauth, i, locals, result, accumulators, tracker_result,
                   raised, requests, fetched, outcomes, clock>>

\* resolve_channel, lines 64-79: the tracker is constructed and
\* search_and_resolve_channel(channel_name) is called on it
resolve_channel ==
    /\ pc = "request"
    /\ \E channel_name_ \in ResolveNames :
       \E refresh_answer \in RefreshAnswers, flow_answer \in FlowAnswers,
          build_answer \in BuildAnswers,
          search_resp \in SearchResponses(channel_name_),
          metadata_resp \in ChannelsListResponses(channel_name_) :
         LET tracker == ChannelTracker(refresh_answer, flow_answer, build_answer)
             resolved ==
                 search_and_resolve_channel(
                     search_channel(tracker.youtube_service, search_resp),
                     get_channel_metadata(tracker.youtube_service, metadata_resp))
             out == IF tracker.out.kind = "raise" THEN tracker.out ELSE resolved
         IN  /\ Constructs(tracker)
             /\ last_call' = [op |-> IF tracker.out.kind = "raise"
                                     THEN "ChannelTracker"
                                     ELSE "search_and_resolve_channel",
                              endpoint |-> "resolve", out |-> out,
                              channel_name |-> channel_name_]
             /\ http_response' = resolve_channel_response(channel_name_, out)
             /\ pc' = "responded"
    /\ UNCHANGED <<i, locals, result, accumulators, tracker_result, raised,
                   requests, fetched, outcomes, clock>>

ApiNext ==
    \/ sync_channels_constructs
    \/ Next
    \/ sync_channels_responds
    \/ resolve_channel

ApiSpec == ApiInit /\ [][ApiNext]_vars

(***************************************************************************)
(* Properties.                                                             *)
(***************************************************************************)
\* the names already classified, and the sync_channel calls that returned
Processed == 1..Len(sync_results)
Returned == 1..Len(outcomes)

\* what the j-th sync_channel call returned: kept in sync_results once
\* classified, in result while line 252 is still to run
ResultAt(j) == IF j <= Len(sync_results) THEN sync_results[j] ELSE result

\* the names at the positions S of the first n names, in list order
RECURSIVE NamesAt(_, _)
NamesAt(S, n) ==
    IF n = 0 THEN <<>>
    ELSE NamesAt(S, n - 1) \o (IF n \in S THEN <<channel_names[n]>> ELSE <<>>)

RECURSIVE SumVideosCount(_)
SumVideosCount(results) ==
    IF results = <<>> THEN 0
    ELSE Head(results).videos_count + SumVideosCount(Tail(results))

\* the sentinel-shaped result for `name` with error `error`, field by field
SentinelResult(name, error) ==
    [channel |-> [kind |-> "Channel", id |-> "", name |-> name,
                  subscriber_count |-> NoneInt, is_active |-> FALSE],
     videos_collected |-> <<>>, videos_count |-> 0, error |-> error]

\* the platform let the j-th name resolve and collect
Success(j) == outcomes[j].tag = "success"
\* the platform raised into the j-th sync_channel
RaisedTags == {"search_raised", "resolve_raised", "collect_raised", "build_raised"}
\* resolution of the j-th name came back absent
AbsentTags == {"no_match", "metadata_absent", "metadata_raised"}

\* C1: partial-failure isolation.  Every name whose resolve and collect
\* succeed has a result with error None, the resolved channel and that
\* channel's own videos, whatever happened to the other names;
\* channels_found counts exactly those names and channels_not_found lists
\* exactly the others.
C1_PartialFailureIsolation ==
    /\ \A j \in Returned :
         Success(j) =>
            /\ ResultAt(j).error = None
            /\ ResultAt(j).channel = outcomes[j].channel
            /\ ResultAt(j).videos_collected = outcomes[j].videos
    /\ channels_found = Cardinality({j \in Processed : Success(j)})
    /\ channels_not_found =
          NamesAt({j \in Processed : ~Success(j)}, Len(sync_results))
    /\ pc = "done" =>
          /\ tracker_result.channels_found = channels_found
          /\ tracker_result.channels_not_found = channels_not_found

\* C2: sync_all_channels never raises because of a per-channel failure.  No
\* exception leaves it, it can always take its next step until it has
\* returned a ChannelTrackerResult, and every failure the platform caused
\* is an error string in that result.
C2_NeverRaises ==
    /\ raised = None
    /\ pc # "raised"
    /\ pc # "done" => ENABLED Next
    /\ \A j \in Returned : ~Success(j) => ResultAt(j).error # None
    /\ pc = "done" =>
          /\ tracker_result.kind = "ChannelTrackerResult"
          /\ Len(tracker_result.sync_results) = Len(channel_names)
          /\ \A j \in 1..Len(channel_names) :
               ~Success(j) => tracker_result.sync_results[j].error # None

\* a batch returned although the platform raised during a search and during
\* a collection
C2_Witness ==
    /\ pc = "done"
    /\ \E j, k \in Returned :
         /\ outcomes[j].tag = "search_raised"
         /\ outcomes[k].tag = "collect_raised"

\* C3: sentinel consistency.  For every result sync_channel returns, error
\* is not None if and only if channel.id is "" and videos_collected is
\* empty.
C3_SentinelConsistency ==
    \A j \in Returned :
        (ResultAt(j).error # None)
            <=> (ResultAt(j).channel.id = "" /\ ResultAt(j).videos_collected = <<>>)

\* C4: batch count consistency.  After each processed name found plus not
\* found is the number of results so far, and in the returned result
\* channels_found + len(channels_not_found) = channels_processed =
\* len(sync_results) = number of configured names.
C4_BatchCountConsistency ==
    /\ channels_found + Len(channels_not_found) = Len(sync_results)
    /\ pc = "for" => Len(sync_results) = i - 1
    /\ pc = "done" =>
          /\ tracker_result.channels_found + Len(tracker_result.channels_not_found)
                = tracker_result.channels_processed
          /\ tracker_result.channels_processed = Len(tracker_result.sync_results)
          /\ tracker_result.channels_processed = Len(channel_names)

\* a batch over a name listed twice returned, one sync found, one not
C4_Witness ==
    /\ pc = "done"
    /\ channel_names = <<"Alpha", "Alpha">>
    /\ tracker_result.channels_found = 1
    /\ Len(tracker_result.channels_not_found) = 1

\* C5: video total consistency.  total_videos_collected is the sum of
\* videos_count over every entry of sync_results, found or not.
C5_VideoTotalConsistency ==
    /\ total_videos = SumVideosCount(sync_results)
    /\ pc = "done" =>
          tracker_result.total_videos_collected
              = SumVideosCount(tracker_result.sync_results)

\* the specification's rule for "not found": anything but error None with a
\* non-empty channel id
SpecNotFound(r) == ~(r.error = None /\ r.channel.id # "")

C7_EmptyBatch ==
    channel_names = <<>> =>
        /\ pc \in {"sync_all", "no_channels", "done"}
        /\ requests = <<>>
        /\ outcomes = <<>>
        /\ raised = None
        /\ pc = "done" =>
              tracker_result =
                  [kind |-> "ChannelTrackerResult", channels_processed |-> 0,
                   channels_found |-> 0, channels_not_found |-> <<>>,
                   total_videos_collected |-> 0,
                   lookback_hours |-> content_lookback_hours,
                   sync_results |-> <<>>]

\* the empty batch returned, under a lookback that is not the default
C7_Witness ==
    /\ pc = "done"
    /\ channel_names = <<>>
    /\ content_lookback_hours = 1
    /\ tracker_result.channels_processed = 0

\* C8: not-found outcome.  Whenever resolution comes back absent (no search
\* match, or no metadata) sync_channel returns the sentinel channel (id "",
\* the input name, inactive), no videos, videos_count 0 and the error
\* "Could not resolve channel: <name>".
C8_NotFoundOutcome ==
    \A j \in Returned :
        outcomes[j].tag \in AbsentTags =>
            /\ j <= Len(channel_names)
            /\ ResultAt(j) =
                  SentinelResult(channel_names[j],
                                 "Could not resolve channel: " \o channel_names[j])

\* a search for Beta matched, its metadata came back absent, and
\* sync_channel returned
C8_Witness ==
    /\ pc = "classify"
    /\ outcomes[Len(outcomes)].tag = "metadata_absent"
    /\ result.error = "Could not resolve channel: Beta"

\* C9: exception outcome.  Whenever an exception is raised during
\* resolution or collection, also after the channel was resolved,
\* sync_channel returns the sentinel-shaped result with error = str(e);
\* neither the resolved channel nor any video built so far is in it.
C9_ExceptionOutcome ==
    \A j \in Returned :
        outcomes[j].tag \in RaisedTags =>
            /\ j <= Len(channel_names)
            /\ ResultAt(j) = SentinelResult(channel_names[j], outcomes[j].msg)

\* a channel was resolved, one Video was built, the next mapping was
\* rejected, and sync_channel returned
C9_Witness ==
    /\ pc = "classify"
    /\ outcomes[Len(outcomes)].tag = "build_raised"
    /\ outcomes[Len(outcomes)].built = 1
    /\ result.error = "1 validation error for Video"

\* C10: not found and exception converge.  A name whose search matches
\* nothing and a name whose metadata fetch raises get the same result, with
\* a populated error, and the same batch step: the name joins
\* channels_not_found, channels_found and the video total stay.
C10_NotFoundExceptionConverge ==
    [][(/\ pc = "classify"
        /\ outcomes # <<>>
        /\ outcomes[Len(outcomes)].tag \in {"no_match", "metadata_raised"})
       => /\ result.error \notin {None, ""}
          /\ result = SentinelResult(channel_names[i],
                         "Could not resolve channel: " \o channel_names[i])
          /\ sync_results' = Append(sync_results, result)
          /\ channels_not_found' = Append(channels_not_found, channel_names[i])
          /\ channels_found' = channels_found
          /\ total_videos' = total_videos]_vars

\* one batch held the same name twice; once its search matched nothing,
\* once its metadata fetch raised; the batch returned with both results equal
C10_Witness ==
    /\ pc = "done"
    /\ channel_names = <<"Alpha", "Alpha">>
    /\ outcomes[1].tag = "no_match"
    /\ outcomes[2].tag = "metadata_raised"
    /\ tracker_result.sync_results[1] = tracker_result.sync_results[2]
    /\ tracker_result.channels_not_found = <<"Alpha", "Alpha">>
    /\ tracker_result.channels_found = 0

\* where sync_all_channels stands while sync_channel(names[i]) is under way
SyncChannelPcs ==
    {"search", "metadata", "channel_metadata", "uploads_playlist",
     "playlist_items", "recent_videos", "video_metadata", "videos_data"}

\* C11: strict sequential processing without short-circuit.  Every
\* configured name is attempted exactly once, in input order: the calls to
\* the platform are made for names[i] while i stands still, i moves on by
\* one only when the sync of names[i] has returned, whatever it returned,
\* and the batch returns only after the last name was attempted.
C11_SequentialNoShortCircuit ==
    /\ [](/\ pc \in SyncChannelPcs =>
               /\ i \in 1..Len(channel_names)
               /\ Len(outcomes) = i - 1
               /\ Len(sync_results) = i - 1
               /\ \A k \in 1..Len(requests) :
                    requests[k].op = "search.list" => requests[k].arg = channel_names[i]
          /\ pc = "classify" => i \in 1..Len(channel_names) /\ Len(outcomes) = i
          /\ pc = "for" => Len(outcomes) = i - 1
          /\ pc = "done" => Len(outcomes) = Len(channel_names))
    /\ [][/\ i' \in {i, i + 1}
          /\ i' = i + 1 => pc \in {"sync_all", "classify"}
          /\ pc = "classify" => i' = i + 1 /\ pc' = "for"
          /\ (pc = "for" /\ i <= Len(channel_names)) => pc' = "search"
          /\ pc' = "done" => (channel_names = <<>> \/ i > Len(channel_names))
          /\ Len(outcomes') \in {Len(outcomes), Len(outcomes) + 1}]_vars

\* the first of three names failed (its search raised), and the third is
\* being fetched from the platform
C11_Witness ==
    /\ pc = "video_metadata"
    /\ i = 3
    /\ Len(channel_names) = 3
    /\ outcomes[1].tag = "search_raised"
    /\ outcomes[2].tag = "success"

\* now - hours of the configured lookback
Cutoff == UtcNow - content_lookback_hours * SecondsPerHour

\* the video ids of the listed uploads stamped at or after instant c, in
\* listed order
RECURSIVE IdsAtOrAfter(_, _)
IdsAtOrAfter(items, c) ==
    IF items = <<>> THEN <<>>
    ELSE (IF Head(items).publishedAt.t >= c THEN <<Head(items).videoId>> ELSE <<>>)
         \o IdsAtOrAfter(Tail(items), c)

\* every listed upload carries a well-formed timestamp
AllStamped(items) == \A k \in 1..Len(items) : items[k].publishedAt.fmt = "iso"

\* C12: lookback boundary.  With cutoff = now - hours, get_recent_videos
\* keeps a listed upload if and only if it was published at or after the
\* cutoff: one published exactly at the cutoff is kept, one published a
\* second earlier is not.
C12_LookbackBoundary ==
    [][(pc = "recent_videos" /\ AllStamped(response.items)) =>
         LET kept == IdsAtOrAfter(response.items, Cutoff)
         IN  /\ kept # <<>> => pc' = "video_metadata" /\ video_ids' = kept
             /\ kept = <<>> =>
                   /\ pc' = "classify"
                   /\ result'.error = None
                   /\ result'.videos_collected = <<>>
             /\ \A k \in 1..Len(response.items) :
                  /\ response.items[k].publishedAt = Iso(Cutoff) =>
                        \E n \in 1..Len(video_ids') :
                            video_ids'[n] = response.items[k].videoId
                  /\ response.items[k].publishedAt = Iso(Cutoff - 1) =>
                        \A n \in 1..Len(video_ids') :
                            video_ids'[n] # response.items[k].videoId]_vars

\* the page lists one upload a second before the cutoff and one exactly at it
C12_Witness ==
    /\ pc = "recent_videos"
    /\ Len(response.items) = 2
    /\ response.items[1].publishedAt = Iso(Cutoff - 1)
    /\ response.items[2].publishedAt = Iso(Cutoff)

\* C17: single page of uploads.  One get_recent_videos issues exactly one
\* uploads-listing request: a page that names a next page is not followed
\* by another request, and at most maxResults videos come out of it.
C17_SinglePage ==
    /\ [](/\ pc \in {"recent_videos", "video_metadata", "videos_data"} =>
               Cardinality({k \in 1..Len(requests) :
                              requests[k].op = "playlistItems.list"}) = 1
          /\ pc \in {"search", "metadata", "channel_metadata", "uploads_playlist",
                    "playlist_items"} =>
               \A k \in 1..Len(requests) : requests[k].op # "playlistItems.list"
          /\ Len(video_ids) <= maxResults
          /\ \A j \in 1..Len(sync_results) :
               Len(sync_results[j].videos_collected) <= maxResults)
    /\ [][pc = "recent_videos" =>
            /\ pc' \in {"video_metadata", "classify"}
            /\ requests' \in {requests, <<>>}]_vars

\* a full page, all of it inside the window, that names a next page
C17_Witness ==
    /\ pc = "recent_videos"
    /\ response.nextPageToken # None
    /\ Len(response.items) = maxResults
    /\ AllStamped(response.items)
    /\ Len(IdsAtOrAfter(response.items, Cutoff)) = maxResults

\* the ids of the fetches that gave a mapping, in the order they were made
RECURSIVE OkIds(_)
OkIds(log) ==
    IF log = <<>> THEN <<>>
    ELSE (IF Head(log).ok THEN <<Head(log).id>> ELSE <<>>) \o OkIds(Tail(log))

\* the ids of a sequence of mappings or Videos
IdsOf(seq) == [k \in 1..Len(seq) |-> seq[k].id]

\* C13: per-video failure is silent and local.  In the metadata loop a
\* fetch that gives nothing (no item, or an exception inside the fetch)
\* leaves out exactly that video: the mappings kept are those of the fetches
\* that succeeded, in the platform's order, the loop goes on to the next id,
\* and the result built from well-formed mappings has error None and
\* exactly those videos.
C13_PerVideoFailureLocal ==
    /\ [](pc \in {"video_metadata", "videos_data"} =>
             /\ IdsOf(videos_with_metadata) = OkIds(fetched)
             /\ pc = "video_metadata" => video_ids # <<>>
             /\ pc = "videos_data" => video_ids = <<>> /\ fetched # <<>>)
    /\ [][/\ pc = "video_metadata" =>
               /\ pc' \in {"video_metadata", "videos_data"}
               /\ video_ids' = Tail(video_ids)
               /\ Len(fetched') = Len(fetched) + 1
               /\ fetched'[Len(fetched')].id = Head(video_ids)
               /\ \A k \in 1..Len(videos_with_metadata) :
                    videos_with_metadata'[k] = videos_with_metadata[k]
          /\ (/\ pc = "videos_data"
              /\ \A k \in 1..Len(videos_with_metadata) :
                   /\ videos_with_metadata[k].title # None
                   /\ videos_with_metadata[k].channel_id # None) =>
               /\ pc' = "classify"
               /\ result'.error = None
               /\ result'.channel = channel
               /\ IdsOf(result'.videos_collected) = OkIds(fetched)
               /\ result'.videos_count = Len(OkIds(fetched))]_vars

\* of two in-window videos the fetch of the first gave nothing and the
\* fetch of the second gave a well-formed mapping
C13_Witness ==
    /\ pc = "videos_data"
    /\ Len(fetched) = 2
    /\ ~fetched[1].ok
    /\ fetched[2].ok
    /\ Len(videos_with_metadata) = 1
    /\ videos_with_metadata[1].title # None

\* the requests of kind op in the log of the sync under way
Calls(op) == {k \in 1..Len(requests) : requests[k].op = op}

\* C14: resolver absent outcomes.  search_and_resolve_channel returns None,
\* raising nothing, when the search has no match, and then the metadata is
\* never asked for; it returns None when the search matched and the
\* metadata fetch gave nothing; a Channel exists only after both calls gave
\* a value.
C14_ResolverAbsent ==
    /\ [](/\ pc = "search" => search_result = NoneObj /\ requests = <<>>
          /\ pc = "metadata" =>
               /\ search_result # NoneObj
               /\ search_result.kind = "dict"
               /\ Calls("search.list") = {1}
               /\ Calls("channels.list") = {}
          /\ pc = "channel_metadata" =>
               /\ search_result # NoneObj
               /\ Calls("search.list") = {1}
               /\ Calls("channels.list") = {2}
          /\ pc \in {"search", "metadata", "channel_metadata"} => channel = NoneObj
          /\ channel # NoneObj =>
               /\ channel.kind = "Channel"
               /\ Calls("search.list") = {1}
               /\ Calls("channels.list") = {2})
    /\ [][/\ pc = "search" => pc' \in {"metadata", "classify"}
          /\ (/\ pc' = "classify"
              /\ Len(outcomes') = Len(outcomes) + 1
              /\ outcomes'[Len(outcomes')].tag \in AbsentTags) =>
               /\ outcomes'[Len(outcomes')].tag = "no_match" <=> pc = "search"
               /\ pc \in {"search", "metadata", "channel_metadata"}
               /\ result' = SentinelResult(channel_names[i],
                               "Could not resolve channel: " \o channel_names[i])]_vars

\* one name's search had no match and the next name's search matched but
\* its metadata came back empty; both syncs have returned
C14_Witness ==
    /\ Len(outcomes) >= 2
    /\ outcomes[1].tag = "no_match"
    /\ outcomes[2].tag = "metadata_absent"
    /\ pc = "classify"
    /\ result.error = "Could not resolve channel: " \o channel_names[2]

\* C15: per-result count consistency.  Every ChannelSyncResult sync_channel
\* returns, on the success, the not-found and the exception path, has
\* videos_count = len(videos_collected).
C15_ResultCountConsistency ==
    /\ \A j \in Returned :
         ResultAt(j).videos_count = Len(ResultAt(j).videos_collected)
    /\ pc = "done" =>
         \A j \in 1..Len(tracker_result.sync_results) :
            tracker_result.sync_results[j].videos_count =
                Len(tracker_result.sync_results[j].videos_collected)

\* a batch returned with a result that carries two videos, a not-found
\* result and an exception result
C15_Witness ==
    /\ pc = "done"
    /\ Len(outcomes) = 3
    /\ outcomes[1].tag = "success"
    /\ tracker_result.sync_results[1].videos_count = 2
    /\ outcomes[2].tag = "no_match"
    /\ outcomes[3].tag = "collect_raised"

\* where sync_all_channels stands while the client collects a channel's videos
CollectPcs == {"playlist_items", "recent_videos", "video_metadata", "videos_data"}

\* C16: uniform lookback window.  Within one sync_all_channels the hours
\* handed to the client's video collection are the configured
\* content_lookback_hours for every resolved channel, the configured value
\* does not change during the batch, and the lookback_hours of the returned
\* ChannelTrackerResult is that same value.
C16_UniformLookback ==
    /\ [](/\ pc \in CollectPcs => hours = content_lookback_hours
          /\ pc \notin CollectPcs => hours = NoneInt
          /\ pc = "done" => tracker_result.lookback_hours = content_lookback_hours)
    /\ [][content_lookback_hours' = content_lookback_hours]_vars

\* the second resolved channel of a batch is being collected with a
\* lookback that is not the client's default
C16_Witness ==
    /\ pc = "video_metadata"
    /\ i = 2
    /\ outcomes[1].tag = "success"
    /\ content_lookback_hours = 1
    /\ hours = 1

\* C18: absent fields stay absent.  When the platform's channel response
\* supplies no subscriber count, the Channel that is resolved from it
\* carries the count as None, not as 0.
C18_AbsentCountsStayAbsent ==
    [][(/\ pc = "channel_metadata"
        /\ response.items # <<>>
        /\ response.items[1].subscriberCount = None
        /\ pc' = "uploads_playlist") =>
          channel'.subscriber_count = NoneInt]_vars

\* CONTENT_LOOKBACK_HOURS of the environment is unset or empty
LookbackNotGiven ==
    ~env.CONTENT_LOOKBACK_HOURS.set \/ env.CONTENT_LOOKBACK_HOURS.text.fmt = "empty"

\* CONTENT_LOOKBACK_HOURS of the environment is a decimal text
LookbackIsDecimal ==
    env.CONTENT_LOOKBACK_HOURS.set /\ env.CONTENT_LOOKBACK_HOURS.text.fmt = "decimal"

\* C19: lookback range enforcement.  Settings() succeeds only when
\* CONTENT_LOOKBACK_HOURS is an integer in 1..168 (24 when it is not
\* given); a value below 1 or above 168 is rejected with a validation
\* error, so the lookback a tracker reads from its settings is in 1..168.
C19_LookbackRange ==
    /\ pc \in {"get_settings", "settings", "raised"}
    /\ pc = "settings" =>
         /\ content_lookback_hours \in 1..168
         /\ LookbackNotGiven => content_lookback_hours = 24
         /\ ~LookbackNotGiven =>
              /\ LookbackIsDecimal
              /\ content_lookback_hours = env.CONTENT_LOOKBACK_HOURS.text.n
         /\ raised = None
    /\ pc = "raised" =>
         /\ ~LookbackNotGiven
         /\ LookbackIsDecimal => env.CONTENT_LOOKBACK_HOURS.text.n \notin 1..168
         /\ raised = "1 validation error for Settings"
         /\ content_lookback_hours = NoneInt

\* an environment that asks for 169 hours was rejected
C19_Witness ==
    /\ pc = "raised"
    /\ LookbackIsDecimal
    /\ env.CONTENT_LOOKBACK_HOURS.text.n = 169

\* the positions of text that hold a comma, and 0 and Len + 1 around them
Bounds(text) == {0, Len(text) + 1} \cup {k \in 1..Len(text) : text[k] = ","}

\* text without the blanks at its ends
Trimmed(text) ==
    LET inked == {k \in 1..Len(text) : text[k] # " "}
    IN  IF inked = {} THEN <<>>
        ELSE SubSeq(text, CHOOSE k \in inked : \A m \in inked : k <= m,
                          CHOOSE k \in inked : \A m \in inked : k >= m)

\* the trimmed, non-empty pieces of text that start after position p
RECURSIVE PiecesFrom(_, _)
PiecesFrom(text, p) ==
    IF p > Len(text) THEN <<>>
    ELSE LET q == CHOOSE k \in Bounds(text) :
                      k > p /\ \A m \in Bounds(text) : m > p => k <= m
             piece == Trimmed(SubSeq(text, p + 1, q - 1))
         IN  (IF piece # <<>> THEN <<piece>> ELSE <<>>) \o PiecesFrom(text, q)

\* what the claim expects of a raw TRACKED_CHANNELS value
ExpectedChannels(variable) ==
    IF ~variable.set THEN <<>> ELSE PiecesFrom(variable.text, 0)

\* C20: tracked-channel parsing.  tracked_channels is the comma-separated
\* pieces of the raw TRACKED_CHANNELS text, each without surrounding
\* whitespace, the empty ones dropped, in their original order; an unset,
\* empty or blank raw value gives the empty list; no entry is empty, starts
\* or ends with whitespace, or holds a comma.
C20_TrackedChannelParsing ==
    pc = "settings" =>
        /\ channel_names = ExpectedChannels(env.TRACKED_CHANNELS)
        /\ (\/ ~env.TRACKED_CHANNELS.set
            \/ \A k \in 1..Len(env.TRACKED_CHANNELS.text) :
                 env.TRACKED_CHANNELS.text[k] = " ") => channel_names = <<>>
        /\ \A j \in 1..Len(channel_names) :
             /\ channel_names[j] # <<>>
             /\ channel_names[j][1] # " "
             /\ channel_names[j][Len(channel_names[j])] # " "
             /\ \A k \in 1..Len(channel_names[j]) : channel_names[j][k] # ","
        /\ env.TRACKED_CHANNELS.set =>
             parse_tracked_channels([kind |-> "str",
                                     text |-> env.TRACKED_CHANNELS.text])
                 = channel_names
        /\ parse_tracked_channels(NoneObj) = <<>>

\* " a,,b" was read as the two names a and b
C20_Witness ==
    /\ pc = "settings"
    /\ env.TRACKED_CHANNELS.set
    /\ env.TRACKED_CHANNELS.text = <<" ", "a", ",", ",", "b">>
    /\ channel_names = << <<"a">>, <<"b">> >>

\* the operations of the requests logged for the sync under way, in order
Ops == [k \in 1..Len(requests) |-> requests[k].op]

\* the calls sync_channel has made when it stands at a given place: the
\* search, then the metadata, then the collection's requests
Resolving == <<"search.list", "channels.list">>
Listing == Resolving \o <<"channels.list.contentDetails">>
Paging == Listing \o <<"playlistItems.list">>

\* C25: no retry and guarded call order within one sync_channel.  For one
\* name the search is made once, the metadata fetch at most once and only
\* after the search matched, the collection at most once and only after a
\* Channel was resolved; once the sync has returned (absent result,
\* exception or success) no request is made for that name any more.
C25_NoRetryGuardedOrder ==
    /\ [](/\ pc = "search" => Ops = <<>>
          /\ pc = "metadata" =>
                Ops = <<"search.list">> /\ search_result # NoneObj
          /\ pc \in {"channel_metadata", "uploads_playlist"} => Ops = Resolving
          /\ pc = "uploads_playlist" => channel # NoneObj
          /\ pc = "playlist_items" => Ops = Listing /\ channel # NoneObj
          /\ pc = "recent_videos" => Ops = Paging /\ channel # NoneObj
          /\ pc \in {"video_metadata", "videos_data"} =>
                /\ SubSeq(Ops, 1, Len(Paging)) = Paging
                /\ \A k \in (Len(Paging) + 1)..Len(requests) :
                      /\ requests[k].op = "videos.list"
                      /\ \A m \in (Len(Paging) + 1)..Len(requests) :
                            requests[m].arg = requests[k].arg => m = k
          /\ pc \notin SyncChannelPcs => requests = <<>>
          /\ \A k \in 1..Len(requests) :
                /\ requests[k].op = "search.list" => requests[k].arg = channel_names[i]
                /\ requests[k].op = "channels.list.contentDetails" =>
                      requests[k].arg = channel.id)
    /\ [][/\ pc = "search" => pc' # "search"
          /\ pc' = "search" => pc = "for" /\ i' = i
          /\ pc = "classify" => i' = i + 1
          /\ (pc \in SyncChannelPcs /\ pc' \notin SyncChannelPcs) =>
                pc' = "classify" /\ requests' = <<>>
          /\ (pc \in SyncChannelPcs /\ pc' \in SyncChannelPcs) =>
                /\ Len(requests') \in {Len(requests), Len(requests) + 1}
                /\ SubSeq(requests', 1, Len(requests)) = requests
                /\ pc' # pc \/ pc = "video_metadata"]_vars

\* a sync whose metadata request raised has returned, after its one search
\* matched, and the next name is being searched
C25_Witness ==
    /\ pc = "search"
    /\ i = 2
    /\ outcomes[1].tag = "metadata_raised"
    /\ requests = <<>>

\* C27: found / not-found classification agrees with the specification.
\* For every result sync_channel returns, the one with the empty error
\* string included, line 252 lists the name as not found exactly when the
\* rule "error is None and channel.id != ''" is false, and counts it as
\* found exactly when the rule is true.
C27_ClassificationAgrees ==
    /\ [](\A j \in Returned : IsNotFound(ResultAt(j)) <=> SpecNotFound(ResultAt(j)))
    /\ [][pc = "classify" =>
            /\ SpecNotFound(result) =>
                  /\ channels_not_found' = Append(channels_not_found, channel_names[i])
                  /\ channels_found' = channels_found
            /\ ~SpecNotFound(result) =>
                  /\ channels_not_found' = channels_not_found
                  /\ channels_found' = channels_found + 1]_vars

\* a sync ended in an exception with an empty message and was classified:
\* its error is the empty string, its name is listed as not found
C27_Witness ==
    /\ Len(sync_results) >= 1
    /\ sync_results[1].error = ""
    /\ channels_not_found # <<>>
    /\ channels_not_found[1] = channel_names[1]
    /\ channels_found = 0

\* the five API operations of the client
ApiOperations ==
    {"search_channel", "get_channel_metadata", "get_video_metadata",
     "get_recent_videos", "get_recent_videos_with_metadata"}

\* C21: authentication precondition.  youtube_service is set by nothing but
\* an authenticate() that completed, and stays set; on a client without it
\* each of the five API operations raises RuntimeError "Not authenticated"
\* and sends no request: the handlers of get_channel_metadata and
\* get_video_metadata do not turn the error into a None return.
C21_AuthenticationPrecondition ==
    /\ []((~youtube_service /\ last_call.op \in ApiOperations) =>
             /\ last_call.out = [kind |-> "raise",
                                 msg |-> "Not authenticated. Call authenticate() first."]
             /\ requests = <<>>)
    /\ []((~youtube_service /\ last_call.op = "authenticate") =>
             last_call.out.kind = "raise")
    /\ [][/\ youtube_service => youtube_service'
          /\ (~youtube_service /\ youtube_service') =>
                /\ last_call'.op = "authenticate"
                /\ last_call'.out.kind = "return"]_vars

\* authenticate() got its credentials but failed to build the service, and
\* get_channel_metadata was called afterwards: it raised
C21_Witness ==
    /\ ~youtube_service
    /\ credentials # NoneObj
    /\ last_call.op = "get_channel_metadata"
    /\ last_call.out.kind = "raise"
    /\ last_call.out.msg = "Not authenticated. Call authenticate() first."
    /\ requests = <<>>

\* the credentials a token file holds, NoneObj when it holds none
StoredIn(file) ==
    IF file.fmt = "json"
    THEN [kind |-> "Credentials", token |-> file.token,
          refresh_token |-> file.refresh_token, expiry |-> file.expiry]
    ELSE NoneObj
\* a stored token that loads and is valid
Usable(file) ==
    file.fmt = "json" /\ file.token # None /\ file.expiry # "past"
\* a stored token that loads, is expired and carries a refresh token
Refreshable(file) ==
    file.fmt = "json" /\ file.expiry = "past" /\ file.refresh_token # None

\* C29: token persistence in _get_credentials.  When it returns after a
\* refresh or after the interactive flow, the token file holds the
\* serialization of exactly the credentials returned; when the stored token
\* loads and is valid, those credentials are returned by the stored path
\* (no refresh, no flow) and the file is left as it was; the refresh path
\* is taken exactly when the loaded credentials are expired and carry a
\* refresh token, and the flow in every other case without valid
\* credentials.
C29_TokenPersistence ==
    [][last_call'.op = "authenticate" =>
         /\ Usable(token_file) =>
               /\ last_call'.path = "stored"
               /\ last_call'.got = [kind |-> "return", value |-> StoredIn(token_file)]
               /\ token_file' = token_file
         /\ last_call'.path = "stored" => Usable(token_file)
         /\ last_call'.path = "refresh" <=> Refreshable(token_file)
         /\ (~Usable(token_file) /\ ~Refreshable(token_file)) =>
               last_call'.path = "flow"
         /\ (last_call'.got.kind = "return" /\ last_call'.path \in {"refresh", "flow"}) =>
               /\ token_file'.fmt = "json"
               /\ StoredIn(token_file') = last_call'.got.value
         /\ (last_call'.got.kind = "return" /\ last_call'.path = "refresh") =>
               /\ last_call'.got.value.token = "ya29.new"
               /\ last_call'.got.value.refresh_token = token_file.refresh_token]_vars

\* an expired token with a refresh token was found and refreshed: the file
\* now holds the new credentials, which the client keeps
C29_Witness ==
    /\ last_call.op = "authenticate"
    /\ last_call.path = "refresh"
    /\ last_call.found.fmt = "json"
    /\ last_call.found.expiry = "past"
    /\ last_call.got.kind = "return"
    /\ token_file.fmt = "json"
    /\ token_file.token = "ya29.new"
    /\ credentials = last_call.got.value
    /\ youtube_service

\* C30: failed authentication leaves the client unauthenticated.  When
\* _get_credentials raises, authenticate() raises the same error,
\* credentials and youtube_service stay as they were (unset on a client that
\* never authenticated, whose API operations go on raising "Not
\* authenticated"), and no token file is written: a file that loaded is
\* left as it was, a malformed one is gone and stays gone.
C30_FailedAuthentication ==
    /\ [][(last_call'.op = "authenticate" /\ last_call'.got.kind = "raise") =>
            /\ last_call'.out = last_call'.got
            /\ credentials' = credentials
            /\ youtube_service' = youtube_service
            /\ token_file.fmt = "json" => token_file' = token_file
            /\ token_file.fmt # "json" => token_file' = [fmt |-> "absent"]]_vars
    /\ [](credentials = NoneObj => ~youtube_service)
    /\ []((credentials = NoneObj /\ last_call.op \in ApiOperations) =>
             last_call.out.kind = "raise")

\* a malformed token file was found, the flow was needed and the
\* credentials file did not exist: authenticate() raised, the token file is
\* gone and the client has neither credentials nor service
C30_Witness ==
    /\ last_call.op = "authenticate"
    /\ last_call.found = [fmt |-> "malformed"]
    /\ last_call.out = [kind |-> "raise", msg |-> "Credentials file not found"]
    /\ ~credentials_json
    /\ token_file = [fmt |-> "absent"]
    /\ credentials = NoneObj
    /\ ~youtube_service

\* the instant a timestamp text denotes, NoneInt when it denotes none
InstantOf(text) == IF text.fmt = "iso" THEN text.t ELSE NoneInt

\* C24: timestamp parsing degrades to absent.  _parse_datetime gives None
\* for None, for the empty string and for text that is no ISO timestamp,
\* and raises nothing: when the client returned mappings the Video model
\* accepts, every one of them becomes a Video, in order, with published_at
\* the instant of its text or absent, and the sync returns with error None.
C24_TimestampDegradesToAbsent ==
    [][(/\ pc = "videos_data"
        /\ pc' # "videos_data"
        /\ \A k \in 1..Len(videos_with_metadata) :
              /\ videos_with_metadata[k].title # None
              /\ videos_with_metadata[k].channel_id # None) =>
          /\ pc' = "classify"
          /\ result'.error = None
          /\ result'.videos_count = Len(videos_with_metadata)
          /\ Len(result'.videos_collected) = Len(videos_with_metadata)
          /\ \A k \in 1..Len(videos_with_metadata) :
                /\ result'.videos_collected[k].id = videos_with_metadata[k].id
                /\ result'.videos_collected[k].published_at =
                      InstantOf(videos_with_metadata[k].published_at)]_vars

\* a sync returned two videos, the first with its instant, the second,
\* whose published_at did not parse, with none
C24_Witness ==
    /\ pc = "classify"
    /\ result.error = None
    /\ Len(result.videos_collected) = 2
    /\ result.videos_collected[1].published_at = UtcNow
    /\ result.videos_collected[2].published_at = NoneInt

RECURSIVE SumDurations(_)
SumDurations(stamps) ==
    IF stamps = <<>> THEN 0
    ELSE (Head(stamps).sync_completed_at - Head(stamps).sync_started_at)
         + SumDurations(Tail(stamps))

\* C28: timestamp ordering under a non-decreasing clock.  started_at is not
\* after the first sync_started_at, each result's sync_started_at is not
\* after its sync_completed_at, which is not after the next result's
\* sync_started_at, and the last sync_completed_at is not after
\* completed_at; so no duration is negative and the batch's duration is at
\* least the sum of the results' durations.
C28_TimestampOrdering ==
    /\ \A j \in 1..Len(timestamps) :
         /\ started_at <= timestamps[j].sync_started_at
         /\ timestamps[j].sync_started_at <= timestamps[j].sync_completed_at
         /\ timestamps[j].sync_completed_at <= now
         /\ j < Len(timestamps) =>
               timestamps[j].sync_completed_at <= timestamps[j + 1].sync_started_at
    /\ Len(timestamps) = Len(outcomes)
    /\ pc = "done" =>
         /\ Len(timestamps) = Len(tracker_result.sync_results)
         /\ started_at <= completed_at
         /\ timestamps # <<>> =>
               timestamps[Len(timestamps)].sync_completed_at <= completed_at
         /\ completed_at - started_at >= SumDurations(timestamps)

\* a batch of two returned while the clock moved: the first sync took one
\* tick, the second started after the first had completed, and the batch
\* lasted longer than the two syncs together
C28_Witness ==
    /\ pc = "done"
    /\ Len(timestamps) = 2
    /\ timestamps[1].sync_completed_at = timestamps[1].sync_started_at + 1
    /\ timestamps[2].sync_started_at > timestamps[1].sync_completed_at
    /\ completed_at - started_at > SumDurations(timestamps)

\* C22: error mapping of POST /api/channels/sync.  The endpoint answers 500
\* with a detail message exactly when constructing the tracker (settings,
\* authentication) or sync_all_channels raised, and 200 with the
\* ChannelTrackerResult otherwise; a channel that was not found or whose
\* sync ended in an exception never gives a 500: it is an error string and
\* a name in channels_not_found of the 200 body.
C22_SyncErrorMapping ==
    /\ http_response = NoneObj => pc # "responded"
    /\ (http_response # NoneObj /\ last_call.endpoint = "sync") =>
         /\ pc = "responded"
         /\ http_response.status_code \in {200, 500}
         /\ http_response.status_code = 500 <=>
               (last_call.out.kind = "raise" \/ raised # None)
         /\ last_call.out.kind = "raise" =>
               /\ http_response.detail = "Channel sync failed: " \o last_call.out.msg
               /\ outcomes = <<>>
               /\ tracker_result = NoneObj
         /\ http_response.status_code = 200 =>
               /\ http_response.body = tracker_result
               /\ http_response.body.kind = "ChannelTrackerResult"
               /\ Len(http_response.body.sync_results) = Len(channel_names)
               /\ \A j \in 1..Len(outcomes) :
                     ~Success(j) =>
                        /\ http_response.body.sync_results[j].error # None
                        /\ \E k \in 1..Len(http_response.body.channels_not_found) :
                              http_response.body.channels_not_found[k] = channel_names[j]
         /\ outcomes # <<>> => http_response.status_code = 200

\* a batch of two was answered with 200 although the search of one name
\* raised and the collection of the other raised: both are in the body
C22_Witness ==
    /\ http_response # NoneObj
    /\ last_call.endpoint = "sync"
    /\ http_response.status_code = 200
    /\ Len(outcomes) = 2
    /\ outcomes[1].tag = "search_raised"
    /\ outcomes[2].tag = "collect_raised"
    /\ http_response.body.channels_not_found = <<"Alpha", "Beta">>
    /\ http_response.body.channels_found = 0

\* C23: outcome mapping of POST /api/channels/resolve/{channel_name}.  The
\* endpoint returns the Channel (200) when resolution gave one, answers 404
\* when resolution gave None, and 500 when constructing the tracker or the
\* resolution raised; the 404 is never turned into a 500.
C23_ResolveOutcomeMapping ==
    (http_response # NoneObj /\ last_call.endpoint = "resolve") =>
        /\ pc = "responded"
        /\ http_response.status_code \in {200, 404, 500}
        /\ http_response.status_code = 200 <=>
              (last_call.out.kind = "return" /\ last_call.out.value # NoneObj)
        /\ http_response.status_code = 200 =>
              /\ http_response.body = last_call.out.value
              /\ http_response.body.kind = "Channel"
        /\ http_response.status_code = 404 <=>
              (last_call.out.kind = "return" /\ last_call.out.value = NoneObj)
        /\ http_response.status_code = 404 =>
              http_response.detail = "Channel not found: " \o last_call.channel_name
        /\ http_response.status_code = 500 <=> last_call.out.kind = "raise"
        /\ http_response.status_code = 500 =>
              http_response.detail = "Channel resolution failed: " \o last_call.out.msg
        /\ last_call.op = "ChannelTracker" => http_response.status_code = 500

\* a tracker was constructed (the interactive flow gave it credentials),
\* the resolution gave None, and the endpoint answered 404
C23_Witness ==
    /\ http_response # NoneObj
    /\ last_call.endpoint = "resolve"
    /\ last_call.op = "search_and_resolve_channel"
    /\ last_call.out = [kind |-> "return", value |-> [kind |-> "None"]]
    /\ youtube_service
    /\ credentials.token = "ya29.new"
    /\ http_response.status_code = 404

====
